---- MODULE Spec2Model ----
(***************************************************************************)
(* Ingestion-to-enrichment pipeline of the BI dashboard: the ingestion     *)
(* gateway (views.py, serializers.py), the batch processor (tasks.py) and  *)
(* the enrichment/categorization services it calls.                        *)
(*                                                                         *)
(* The database is modelled as its committed tables; a transaction.atomic  *)
(* block keeps its writes in a private write set that becomes visible at   *)
(* commit and is dropped at rollback.  SELECT ... FOR UPDATE is a row lock *)
(* held until the surrounding atomic block ends.                           *)
(***************************************************************************)
EXTENDS Integers, Sequences, FiniteSets, TLC

VARIABLES
    accounts,      \* committed Account rows
    batches,       \* committed Batch rows
    transactions,  \* committed Transaction rows
    nextBatchId,   \* next value of the batch_id generator
    ing,           \* the gateway request being served (BatchIngestionView.post)
    queue,         \* process_batch_async messages waiting in the broker
    proc,          \* the task run by each celery worker slot
    cache,         \* django cache entry 'transaction_category_patterns'
    request,       \* history: the payload that created each batch
    delayLog,      \* history: batch ids handed to process_batch_async.delay
    lastIngested,  \* history: account input last committed for each account_id
    writeCount,    \* history: committed bulk updates per transaction_id
    completions,   \* history: committed PENDING -> COMPLETED runs per batch
    crashedRuns,   \* history: batches whose run ended with the death of its worker
    refData,       \* committed Category rows, each with its CategoryPattern rows
    call,          \* the enrich_transaction / categorize call of each caller
    adminOp,       \* the admin request that edits the reference data
    summary,       \* the summary request served by each web worker
    summaryCache,  \* django cache entries 'account_summary:...'
    cacheUp,       \* whether the cache store answers
    amountExp,     \* stored amounts count units of 10^amountExp hundredths
    served         \* history: the summary that created the cache entry of a key

vars == <<accounts, batches, transactions, nextBatchId, ing, queue, proc, cache,
          request, delayLog, lastIngested, writeCount, completions, crashedRuns,
          refData, call, adminOp, summary, summaryCache, cacheUp, amountExp, served>>

\* the services exercised on their own
svcVars == <<refData, call, adminOp>>

\* the reporting layer
reportVars == <<summary, summaryCache, cacheUp, amountExp, served>>

dbVars == <<accounts, batches, transactions>>

histVars == <<request, delayLog, lastIngested, writeCount, completions, crashedRuns>>

-----------------------------------------------------------------------------
(* Bounds *)

MaxBatches == 2

-----------------------------------------------------------------------------
(* Status choices *)

PENDING == "P"

COMPLETED == "C"

FAILED == "F"

PROCESSING == "I"

Status == {PENDING, COMPLETED, FAILED, PROCESSING}

\* Python None / SQL NULL for string-valued columns
NULL == "NULL"

\* Python None for text values, which are tuples of characters
NoneText == <<"None">>

-----------------------------------------------------------------------------
(* Text: a str is a tuple of one-character strings *)

UpperToLower ==
    ("C" :> "c") @@ ("S" :> "s") @@ ("T" :> "t") @@ ("U" :> "u")

lower(s) ==
    [i \in 1..Len(s) |-> IF s[i] \in DOMAIN UpperToLower THEN UpperToLower[s[i]] ELSE s[i]]

IsSpace(c) == c = " "

RECURSIVE lstrip(_)
lstrip(s) ==
    IF s # << >> /\ IsSpace(Head(s)) THEN lstrip(Tail(s)) ELSE s

RECURSIVE rstrip(_)
rstrip(s) ==
    IF s # << >> /\ IsSpace(s[Len(s)]) THEN rstrip(SubSeq(s, 1, Len(s) - 1)) ELSE s

strip(s) == rstrip(lstrip(s))

\* Python's "sub in s" on str
contains(sub, s) ==
    \E i \in 0..(Len(s) - Len(sub)) : SubSeq(s, i + 1, i + Len(sub)) = sub

Str_other == <<"o", "t", "h", "e", "r">>

Str_food == <<"f", "o", "o", "d">>

Str_transport == <<"t", "r", "a", "n", "s", "p", "o", "r", "t">>

Str_starbucks == <<"s", "t", "a", "r", "b", "u", "c", "k", "s">>

Str_restaurant == <<"r", "e", "s", "t", "a", "u", "r", "a", "n", "t">>

Str_uber == <<"u", "b", "e", "r">>

Str_lyft == <<"l", "y", "f", "t">>

Str_Uber == <<"U", "b", "e", "r">>

Str_UberTrip == <<"U", "b", "e", "r", " ", "T", "r", "i", "p">>

Str_StarbucksCoffee ==
    <<"S", "t", "a", "r", "b", "u", "c", "k", "s", " ", "C", "o", "f", "f", "e", "e">>

-----------------------------------------------------------------------------
(* Categorization engine *)

MIN_LENGTH == 3

\* list.sort(key=len, reverse=True): stable, longest first
RECURSIVE InsertByLen(_, _)
InsertByLen(sorted, p) ==
    IF sorted = << >> THEN <<p>>
    ELSE IF Len(Head(sorted)) >= Len(p)
         THEN <<Head(sorted)>> \o InsertByLen(Tail(sorted), p)
         ELSE <<p>> \o sorted

RECURSIVE SortLongestFirst(_)
SortLongestFirst(ps) ==
    IF ps = << >> THEN << >>
    ELSE InsertByLen(SortLongestFirst(SubSeq(ps, 1, Len(ps) - 1)), ps[Len(ps)])

\* the list comprehension of _load_patterns for one category
CategoryPatterns(ps) ==
    LET kept == SelectSeq(ps, LAMBDA p : Len(strip(p)) >= MIN_LENGTH)
    IN  SortLongestFirst([i \in 1..Len(kept) |-> strip(lower(kept[i]))])

\* patterns[key] = value on a dict kept as a sequence of items in insertion order
DictSet(d, key, value) ==
    IF \E i \in 1..Len(d) : d[i].name = key
    THEN [i \in 1..Len(d) |-> IF d[i].name = key THEN [name |-> key, patterns |-> value] ELSE d[i]]
    ELSE Append(d, [name |-> key, patterns |-> value])

\* the database branch of _load_patterns; store lists Category rows in Meta
\* ordering, each with its CategoryPattern rows as patterns.all() yields them
RECURSIVE BuildPatterns(_, _)
BuildPatterns(store, d) ==
    IF store = << >> THEN d
    ELSE BuildPatterns(Tail(store),
                       DictSet(d, lower(Head(store).name), CategoryPatterns(Head(store).patterns)))

\* _load_patterns: the snapshot returned for a cache entry c and a store
NoCache == <<[name |-> NoneText, patterns |-> << >>]>>

load_patterns(c, store) ==
    IF c # NoCache THEN c ELSE BuildPatterns(store, << >>)

\* the two nested loops of categorize: first category with a matching pattern
RECURSIVE FirstMatch(_, _)
FirstMatch(text, patterns) ==
    IF patterns = << >> THEN Str_other
    ELSE IF \E i \in 1..Len(Head(patterns).patterns) :
                \/ contains(Head(patterns).patterns[i], text)
                \/ contains(text, Head(patterns).patterns[i])
         THEN Head(patterns).name
         ELSE FirstMatch(text, Tail(patterns))

\* variant: the length of the text as passed is compared
CategorizeLoads_raw(transaction_text) ==
    /\ transaction_text # NoneText
    /\ transaction_text # << >>
    /\ Len(transaction_text) >= MIN_LENGTH

\* categorize reaches _load_patterns only for texts that pass both early returns
CategorizeLoads(transaction_text) ==
    /\ transaction_text # NoneText
    /\ transaction_text # << >>
    /\ Len(strip(lower(transaction_text))) >= MIN_LENGTH

categorize(transaction_text, c, store) ==
    IF ~CategorizeLoads(transaction_text) THEN Str_other
    ELSE FirstMatch(strip(lower(transaction_text)), load_patterns(c, store))

-----------------------------------------------------------------------------
(* Enrichment service *)

\* merchant_name or description or ""
text_to_categorize(merchant_name, description) ==
    IF merchant_name # NoneText /\ merchant_name # << >> THEN merchant_name
    ELSE IF description # NoneText /\ description # << >> THEN description
    ELSE << >>

EnrichCallsCategorizer(merchant_name, description) ==
    strip(text_to_categorize(merchant_name, description)) # << >>

enrich_transaction(merchant_name, description, c, store) ==
    IF ~EnrichCallsCategorizer(merchant_name, description) THEN Str_other
    ELSE categorize(text_to_categorize(merchant_name, description), c, store)

\* Category / CategoryPattern reference data read by the pipeline
PatternStore ==
    << [name |-> Str_food, patterns |-> <<Str_restaurant, Str_starbucks>>],
       [name |-> Str_transport, patterns |-> <<Str_uber, Str_lyft>>] >>

-----------------------------------------------------------------------------
(* Ingestion payloads *)

Acct_chase ==
    [account_id |-> "acc_1", name |-> "Chase Checking", type |-> "depository",
     subtype |-> "checking", mask |-> "1234"]

Acct_chase_renamed ==
    [account_id |-> "acc_1", name |-> "Chase Premier", type |-> "credit"]

Acct_savings ==
    [account_id |-> "acc_2", name |-> "Savings", type |-> "depository",
     subtype |-> NULL, mask |-> "9876"]

Acct_no_type ==
    [account_id |-> "acc_1", name |-> "Chase Checking"]

Txn_uber ==
    [transaction_id |-> "txn_1", account_id |-> "acc_1", amount |-> -1575,
     iso_currency_code |-> "USD", date |-> 16, name |-> Str_UberTrip,
     merchant_name |-> Str_Uber]

Txn_uber_resent ==
    [transaction_id |-> "txn_1", account_id |-> "acc_2", amount |-> -9900,
     iso_currency_code |-> "EUR", date |-> 20, name |-> Str_StarbucksCoffee]

Txn_coffee ==
    [transaction_id |-> "txn_2", account_id |-> "acc_1", amount |-> -2550,
     iso_currency_code |-> "USD", date |-> 15, name |-> Str_StarbucksCoffee,
     merchant_name |-> NoneText]

Txn_no_amount ==
    [transaction_id |-> "txn_2", account_id |-> "acc_1"]

Payloads ==
    << [accounts |-> <<Acct_chase>>, transactions |-> <<Txn_uber, Txn_coffee>>,
        total_transactions |-> 2],
       [accounts |-> <<Acct_savings, Acct_chase_renamed>>,
        transactions |-> <<Txn_uber_resent, Txn_uber>>, total_transactions |-> 5],
       [accounts |-> <<Acct_no_type>>, transactions |-> <<Txn_uber>>,
        total_transactions |-> 1],
       [accounts |-> <<Acct_chase>>, transactions |-> <<Txn_uber, Txn_no_amount>>,
        total_transactions |-> 2],
       [accounts |-> <<Acct_chase>>, transactions |-> <<Txn_uber>>] >>

AccountIds == {"acc_1", "acc_2"}

TxnIds == {"txn_1", "txn_2"}

BatchIds == 1..MaxBatches

-----------------------------------------------------------------------------
(* Request validation: serializer.is_valid() *)

AccountRequired == {"account_id", "name", "type"}

TransactionRequired ==
    {"transaction_id", "account_id", "amount", "iso_currency_code", "date", "name"}

PayloadRequired == {"accounts", "transactions", "total_transactions"}

\* a required field fails validation when its key is absent
HasFields(data, required) ==
    \A f \in required : f \in DOMAIN data

\* variant: the nested transactions serializer declared without its required fields
is_valid_flat(p) ==
    /\ HasFields(p, PayloadRequired)
    /\ \A i \in 1..Len(p.accounts) : HasFields(p.accounts[i], AccountRequired)

is_valid(p) ==
    /\ HasFields(p, PayloadRequired)
    /\ \A i \in 1..Len(p.accounts) : HasFields(p.accounts[i], AccountRequired)
    /\ \A i \in 1..Len(p.transactions) : HasFields(p.transactions[i], TransactionRequired)

\* dict.get(key): None for an absent key
Get(data, f, none) == IF f \in DOMAIN data THEN data[f] ELSE none

-----------------------------------------------------------------------------
(* BatchIngestionRequestSerializer.create *)

\* Account(...) objects built from accounts_data
AccountObject(a) ==
    [account_id |-> a.account_id, name |-> a.name, type |-> a.type,
     subtype |-> Get(a, "subtype", NULL), mask |-> Get(a, "mask", NULL)]

account_objects(p) == [i \in 1..Len(p.accounts) |-> AccountObject(p.accounts[i])]

\* variant: the upsert without update_conflicts keeps the stored row on conflict
RECURSIVE bulk_create_update_conflicts_kept(_, _)
bulk_create_update_conflicts_kept(table, objs) ==
    IF objs = << >> THEN table
    ELSE bulk_create_update_conflicts_kept(
             IF \E r \in table : r.account_id = Head(objs).account_id
             THEN table ELSE table \cup {Head(objs)},
             Tail(objs))

\* INSERT ... ON CONFLICT (account_id) DO UPDATE SET name, type, subtype, mask
RECURSIVE bulk_create_update_conflicts(_, _)
bulk_create_update_conflicts(table, objs) ==
    IF objs = << >> THEN table
    ELSE bulk_create_update_conflicts(
             {r \in table : r.account_id # Head(objs).account_id} \cup {Head(objs)},
             Tail(objs))

\* variant: the status default of Batch set to PROCESSING
BatchObject_processing(batch_id, total_transactions) ==
    [batch_id |-> batch_id, total_transactions |-> total_transactions, status |-> PROCESSING]

\* Batch.objects.create(total_transactions=..., request_id=...): status defaults to PENDING
BatchObject(batch_id, total_transactions) ==
    [batch_id |-> batch_id, total_transactions |-> total_transactions, status |-> PENDING]

\* Transaction(...) objects: category defaults to NULL, ingestion_status to PENDING
TransactionObject(t, batch_id) ==
    [transaction_id |-> t.transaction_id, account_id |-> t.account_id, batch |-> batch_id,
     amount |-> t.amount, currency |-> t.iso_currency_code, date |-> t.date,
     description |-> t.name, merchant_name |-> Get(t, "merchant_name", NoneText),
     category |-> NoneText, ingestion_status |-> PENDING]

transaction_objects(p, batch_id) ==
    [i \in 1..Len(p.transactions) |-> TransactionObject(p.transactions[i], batch_id)]

\* variant: the insert with update_conflicts overwrites the stored row on conflict
RECURSIVE bulk_create_ignore_conflicts_overwrite(_, _)
bulk_create_ignore_conflicts_overwrite(table, objs) ==
    IF objs = << >> THEN table
    ELSE bulk_create_ignore_conflicts_overwrite(
             {r \in table : r.transaction_id # Head(objs).transaction_id} \cup {Head(objs)},
             Tail(objs))

\* INSERT ... ON CONFLICT DO NOTHING against the unique transaction_id
RECURSIVE bulk_create_ignore_conflicts(_, _)
bulk_create_ignore_conflicts(table, objs) ==
    IF objs = << >> THEN table
    ELSE bulk_create_ignore_conflicts(
             IF \E r \in table : r.transaction_id = Head(objs).transaction_id
             THEN table ELSE table \cup {Head(objs)},
             Tail(objs))

\* variant: create without @transaction.atomic, every statement autocommits
AfterRollback_autocommit(committed, written) == written

\* @transaction.atomic: what is visible of a table after the block is left by
\* an exception, given the committed table and the table with the block's writes
AfterRollback(committed, written) == committed

NoBatch == [batch_id |-> 0, total_transactions |-> 0, status |-> NULL]

NoPayload == [accounts |-> << >>, transactions |-> << >>, total_transactions |-> -1]

NoResponse == [code |-> 0]

IngIdle ==
    [pc |-> "idle", payload |-> NoPayload, batch |-> NoBatch, response |-> NoResponse]

\* the last input of a payload for an account_id
LastAccountInput(p, a, old) ==
    LET idx == {i \in 1..Len(p.accounts) : p.accounts[i].account_id = a}
    IN  IF idx = {} THEN old
        ELSE p.accounts[CHOOSE i \in idx : \A j \in idx : j <= i]

-----------------------------------------------------------------------------
(* Ingestion gateway: BatchIngestionView.post *)

\* the request data arrives at post
IngestPost(p) ==
    /\ ing.pc \in {"idle", "done"}
    /\ nextBatchId <= MaxBatches
    /\ ing' = [IngIdle EXCEPT !.pc = "received", !.payload = p]
    /\ UNCHANGED <<svcVars, reportVars, dbVars, nextBatchId, queue, proc, cache, histVars>>

\* serializer.is_valid() fails: 400 with the field errors, nothing is written
IngestReject ==
    /\ ing.pc = "received"
    /\ ~is_valid(ing.payload)
    /\ ing' = [IngIdle EXCEPT !.pc = "done", !.response = [code |-> 400]]
    /\ UNCHANGED <<svcVars, reportVars, dbVars, nextBatchId, queue, proc, cache, histVars>>

\* the writes of create up to and including statement k (1: account upsert,
\* 2: batch insert, 3: transaction bulk insert), as the request's connection
\* sees the tables
WrittenAccounts(p, k) ==
    IF k >= 1 THEN bulk_create_update_conflicts(accounts, account_objects(p)) ELSE accounts

WrittenBatches(p, k) ==
    IF k >= 2 THEN batches \cup {BatchObject(nextBatchId, p.total_transactions)} ELSE batches

\* variant: the transactions are not part of what create commits
WrittenTransactions_later(p, k) == transactions

WrittenTransactions(p, k) ==
    IF k >= 3
    THEN bulk_create_ignore_conflicts(transactions, transaction_objects(p, nextBatchId))
    ELSE transactions

\* create subscripts validated_data and every item without a default: a
\* missing key is a KeyError
CreateKeysPresent(p) ==
    /\ {"accounts", "transactions", "total_transactions"} \subseteq DOMAIN p
    /\ \A i \in 1..Len(p.accounts) :
           {"account_id", "name", "type"} \subseteq DOMAIN p.accounts[i]
    /\ \A i \in 1..Len(p.transactions) :
           {"transaction_id", "account_id", "amount", "iso_currency_code", "date", "name"}
               \subseteq DOMAIN p.transactions[i]

\* serializer.save(): create runs its three statements and the atomic block
\* commits them together
IngestSave ==
    /\ ing.pc = "received"
    /\ is_valid(ing.payload)
    /\ CreateKeysPresent(ing.payload)
    /\ accounts' = WrittenAccounts(ing.payload, 3)
    /\ batches' = WrittenBatches(ing.payload, 3)
    /\ transactions' = WrittenTransactions(ing.payload, 3)
    /\ nextBatchId' = nextBatchId + 1
    /\ ing' = [IngIdle EXCEPT !.pc = "delay",
                              !.batch = BatchObject(nextBatchId, ing.payload.total_transactions)]
    /\ request' = [request EXCEPT ![nextBatchId] = ing.payload]
    /\ lastIngested' = [a \in AccountIds |->
                           LastAccountInput(ing.payload, a, lastIngested[a])]
    /\ UNCHANGED <<svcVars, reportVars, queue, proc, cache, delayLog, writeCount, completions,
                   crashedRuns>>

\* statement k of create raises after the statements before it have run: the
\* atomic block rolls back and post answers 500
IngestRaise(k) ==
    /\ ing.pc = "received"
    /\ is_valid(ing.payload)
    /\ accounts' = AfterRollback(accounts, WrittenAccounts(ing.payload, k - 1))
    /\ batches' = AfterRollback(batches, WrittenBatches(ing.payload, k - 1))
    /\ transactions' = AfterRollback(transactions, WrittenTransactions(ing.payload, k - 1))
    /\ ing' = [IngIdle EXCEPT !.pc = "done", !.response = [code |-> 500]]
    /\ UNCHANGED <<svcVars, reportVars, nextBatchId, queue, proc, cache, histVars>>

\* process_batch_async.delay(batch.batch_id) followed by the 202 response
IngestDelay ==
    /\ ing.pc = "delay"
    /\ queue' = Append(queue, ing.batch.batch_id)
    /\ delayLog' = Append(delayLog, ing.batch.batch_id)
    /\ ing' = [IngIdle EXCEPT !.pc = "done",
                              !.response = [code |-> 202, batch_id |-> ing.batch.batch_id,
                                            total_transactions |-> ing.batch.total_transactions]]
    /\ UNCHANGED <<svcVars, reportVars, dbVars, nextBatchId, proc, cache, request, lastIngested, crashedRuns,
                   writeCount, completions>>

\* delay raises (broker unreachable): post answers 500 after the commit
IngestDelayRaise ==
    /\ ing.pc = "delay"
    /\ ing' = [IngIdle EXCEPT !.pc = "done", !.response = [code |-> 500]]
    /\ UNCHANGED <<svcVars, reportVars, dbVars, nextBatchId, queue, proc, cache, histVars>>

Ingest ==
    \/ \E i \in 1..Len(Payloads) : IngestPost(Payloads[i])
    \/ IngestReject
    \/ IngestSave
    \/ \E k \in 1..3 : IngestRaise(k)
    \/ IngestDelay
    \/ IngestDelayRaise

-----------------------------------------------------------------------------
(* Batch processor: celery tasks *)

Sweepers == {"beat_1", "beat_2"}

Triggers == {"async_1", "async_2"}

Workers == Sweepers \cup Triggers

\* the beat message expires 290 s into a 300 s period, so that sweeps follow
\* one another as long as each ends within its period
Pool == {"beat_1", "async_1"}

ProcIdle ==
    [pc |-> "idle", list |-> << >>, cur |-> 0, start |-> NULL, rows |-> {},
     processed |-> 0, failed |-> 0]

BatchRow(b) == CHOOSE r \in batches : r.batch_id = b

StatusOf(b) == BatchRow(b).status

StatusIn(table, b) == (CHOOSE r \in table : r.batch_id = b).status

\* batch.save(update_fields=['status', 'updated_at'])
SaveStatus(table, b, st) ==
    {IF r.batch_id = b THEN [r EXCEPT !.status = st] ELSE r : r \in table}

BatchTransactions(b) == {t \in transactions : t.batch = b}

\* Batch.objects.filter(status=PENDING).order_by('created_at'): batch ids are
\* generated in creation order
RECURSIVE OrderByCreatedAt(_)
OrderByCreatedAt(ids) ==
    IF ids = {} THEN << >>
    ELSE LET first == CHOOSE b \in ids : \A c \in ids : b <= c
         IN  <<first>> \o OrderByCreatedAt(ids \ {first})

\* variant: the sweep loads the batches that are marked PROCESSING
pending_batches_processing ==
    OrderByCreatedAt({r.batch_id : r \in {x \in batches : x.status = PROCESSING}})

pending_batches ==
    OrderByCreatedAt({r.batch_id : r \in {x \in batches : x.status = PENDING}})

\* select_for_update(): the row lock of batch b is held by a run from its
\* SELECT until its atomic block ends
HoldsLock(w, b) == proc[w].pc = "run" /\ proc[w].cur = b

\* variant: Batch.objects.get without select_for_update never waits
LockFree_unlocked(w, b) == TRUE

LockFree(w, b) == \A v \in Workers \ {w} : ~HoldsLock(v, b)

\* variant: the guard tests COMPLETED only
AlreadyHandled_completed(st) == st = COMPLETED

\* if batch.status in [Status.PROCESSING, Status.COMPLETED]: return
AlreadyHandled(st) == st \in {PROCESSING, COMPLETED}

\* variant: the filter names the status only, not the batch
SelectPending_any(b) == {t \in transactions : t.ingestion_status = PENDING}

\* variant: the run takes every transaction of the batch, whatever its status
SelectPending_all(b) == BatchTransactions(b)

\* Transaction.objects.filter(batch=batch, ingestion_status=Status.PENDING)
SelectPending(b) == {t \in BatchTransactions(b) : t.ingestion_status = PENDING}

\* the loop body of process_single_batch for one row
Enriched(t, c) ==
    [t EXCEPT !.category = enrich_transaction(t.merchant_name, t.description, c, PatternStore),
              !.ingestion_status = COMPLETED]

\* variant: only one of the objects reaches the table
bulk_update_first(table, rows, c) ==
    IF rows = {} THEN table
    ELSE LET t == CHOOSE x \in rows : TRUE
         IN  (table \ {t}) \cup {Enriched(t, c)}

\* Transaction.objects.bulk_update(transactions_to_update, ['category',
\* 'ingestion_status', 'updated_at']) with the objects the loop has changed
bulk_update(table, rows, c) == (table \ rows) \cup {Enriched(t, c) : t \in rows}

\* cache.set in _load_patterns happens once some row reaches the categorizer
\* with a text that passes categorize's early returns
RowLoadsPatterns(t) ==
    /\ EnrichCallsCategorizer(t.merchant_name, t.description)
    /\ CategorizeLoads(text_to_categorize(t.merchant_name, t.description))

\* variant: the loop is left after the first batch
LoopNext_break(p) == [p EXCEPT !.pc = "return", !.cur = 0]

\* the head of the for loop of process_pending_batches: the next batch of the
\* loaded list is passed to process_single_batch, or the loop is over
LoopNext(p) ==
    IF p.list = << >>
    THEN [p EXCEPT !.pc = "return", !.cur = 0]
    ELSE [p EXCEPT !.pc = "call", !.cur = Head(p.list), !.list = Tail(p.list)]

\* the caller's continuation after process_single_batch returns normally:
\* process_pending_batches counts the batch, process_batch_async returns success
AfterReturn(w) ==
    IF w \in Sweepers
    THEN LoopNext([proc[w] EXCEPT !.start = NULL, !.rows = {}, !.processed = @ + 1])
    ELSE ProcIdle

\* variant: the except clause of process_single_batch does not raise again
AfterRaise_swallowed(w) ==
    IF w \in Sweepers
    THEN LoopNext([proc[w] EXCEPT !.start = NULL, !.rows = {}, !.processed = @ + 1])
    ELSE ProcIdle

\* process_single_batch raises: the caller's except clause is entered
AfterRaise(w) ==
    [proc[w] EXCEPT !.pc = "except"]

\* process_pending_batches up to the first iteration of the for loop
SweepStart(w) ==
    /\ w \in Sweepers
    /\ proc[w].pc = "idle"
    /\ proc' = [proc EXCEPT ![w] =
                   IF pending_batches = << >>
                   THEN [ProcIdle EXCEPT !.pc = "return"]
                   ELSE LoopNext([ProcIdle EXCEPT !.list = pending_batches])]
    /\ UNCHANGED <<svcVars, reportVars, dbVars, nextBatchId, ing, queue, cache, histVars>>

\* return {"processed": processed_count, "failed": failed_count}
SweepReturn(w) ==
    /\ w \in Sweepers
    /\ proc[w].pc = "return"
    /\ proc' = [proc EXCEPT ![w] = ProcIdle]
    /\ UNCHANGED <<svcVars, reportVars, dbVars, nextBatchId, ing, queue, cache, histVars>>

\* the except clause of the for loop: batch.status = FAILED; batch.save(...)
SweepExcept(w) ==
    /\ w \in Sweepers
    /\ proc[w].pc = "except"
    /\ LockFree(w, proc[w].cur)
    /\ batches' = SaveStatus(batches, proc[w].cur, FAILED)
    /\ proc' = [proc EXCEPT ![w] =
                   LoopNext([proc[w] EXCEPT !.start = NULL, !.rows = {}, !.failed = @ + 1])]
    /\ UNCHANGED <<svcVars, reportVars, accounts, transactions, nextBatchId, ing, queue, cache, histVars>>

\* the except clause of process_batch_async: the error is logged and a
\* {"status": "failed"} result is returned
TriggerExcept(w) ==
    /\ w \in Triggers
    /\ proc[w].pc = "except"
    /\ proc' = [proc EXCEPT ![w] = ProcIdle]
    /\ UNCHANGED <<svcVars, reportVars, dbVars, nextBatchId, ing, queue, cache, histVars>>

\* a worker takes a process_batch_async message from the broker
TriggerStart(w) ==
    /\ w \in Triggers
    /\ proc[w].pc = "idle"
    /\ queue # << >>
    /\ proc' = [proc EXCEPT ![w] = [ProcIdle EXCEPT !.pc = "call", !.cur = Head(queue)]]
    /\ queue' = Tail(queue)
    /\ UNCHANGED <<svcVars, reportVars, dbVars, nextBatchId, ing, cache, histVars>>

\* process_single_batch: lock the row, apply the guard, write PROCESSING inside
\* the atomic block and evaluate the PENDING transactions of the batch
ProcessBegin(w) ==
    /\ proc[w].pc = "call"
    /\ LockFree(w, proc[w].cur)
    /\ proc' = [proc EXCEPT ![w] =
                   IF AlreadyHandled(StatusOf(proc[w].cur))
                   THEN AfterReturn(w)
                   ELSE [proc[w] EXCEPT !.pc = "run", !.start = StatusOf(proc[w].cur),
                                        !.rows = SelectPending(proc[w].cur)]]
    /\ UNCHANGED <<svcVars, reportVars, dbVars, nextBatchId, ing, queue, cache, histVars>>

\* the enrichment loop, bulk_update and the COMPLETED save; the atomic block is
\* left normally and all of its writes are committed together
ProcessComplete(w) ==
    /\ proc[w].pc = "run"
    /\ LET b == proc[w].cur
           rows == proc[w].rows
       IN  /\ transactions' = bulk_update(transactions, rows, cache)
           /\ batches' = SaveStatus(batches, b, COMPLETED)
           /\ cache' = IF \E t \in rows : RowLoadsPatterns(t)
                       THEN load_patterns(cache, PatternStore) ELSE cache
           /\ writeCount' = [i \in TxnIds |->
                                IF \E t \in rows : t.transaction_id = i
                                THEN writeCount[i] + 1 ELSE writeCount[i]]
           /\ completions' = [completions EXCEPT ![b] =
                                 IF proc[w].start = PENDING THEN @ + 1 ELSE @]
    /\ proc' = [proc EXCEPT ![w] = AfterReturn(w)]
    /\ UNCHANGED <<svcVars, reportVars, accounts, nextBatchId, ing, queue, request, delayLog, lastIngested,
                   crashedRuns>>

\* enrichment, bulk_update or the COMPLETED save raises: the except clause
\* saves FAILED and re-raises, the exception leaves the atomic block and every
\* write of the block is rolled back, the bulk write included when it had
\* been made; the pattern cache may already have been filled
ProcessRaise(w) ==
    /\ proc[w].pc = "run"
    /\ \E filled \in BOOLEAN :
           /\ filled => \E t \in proc[w].rows : RowLoadsPatterns(t)
           /\ cache' = IF filled THEN load_patterns(cache, PatternStore) ELSE cache
    /\ batches' = AfterRollback(batches, SaveStatus(batches, proc[w].cur, FAILED))
    /\ \E written \in {{}, proc[w].rows} :
           transactions' = AfterRollback(transactions,
                                         bulk_update(transactions, written, cache))
    /\ proc' = [proc EXCEPT ![w] = AfterRaise(w)]
    /\ UNCHANGED <<svcVars, reportVars, accounts, nextBatchId, ing, queue, histVars>>

\* the worker process dies during the enrichment loop: its database
\* connection is closed and the open atomic block is rolled back, the task
\* and, for a sweep, the rest of its list are lost; the pattern cache may
\* already have been filled
ProcessCrash(w) ==
    /\ proc[w].pc = "run"
    /\ \E filled \in BOOLEAN :
           /\ filled => \E t \in proc[w].rows : RowLoadsPatterns(t)
           /\ cache' = IF filled THEN load_patterns(cache, PatternStore) ELSE cache
    /\ batches' = AfterRollback(batches, SaveStatus(batches, proc[w].cur, PROCESSING))
    /\ transactions' = AfterRollback(transactions,
                                     bulk_update(transactions, proc[w].rows, cache))
    /\ crashedRuns' = crashedRuns \cup {proc[w].cur}
    /\ proc' = [proc EXCEPT ![w] = [ProcIdle EXCEPT !.pc = "crashed", !.cur = proc[w].cur]]
    /\ UNCHANGED <<svcVars, reportVars, accounts, nextBatchId, ing, queue, request,
                   delayLog, lastIngested, writeCount, completions>>

\* the worker process is started again
WorkerRestart(w) ==
    /\ proc[w].pc = "crashed"
    /\ proc' = [proc EXCEPT ![w] = ProcIdle]
    /\ UNCHANGED <<svcVars, reportVars, dbVars, nextBatchId, ing, queue, cache, histVars>>

Crash(ws) ==
    \/ \E w \in ws : ProcessCrash(w)
    \/ \E w \in ws : WorkerRestart(w)

\* the longest queue of trigger messages considered
MaxQueue == 2

\* at-least-once delivery: the broker delivers again a process_batch_async
\* message that was sent before
TriggerRedeliver ==
    /\ Len(queue) < MaxQueue
    /\ \E i \in DOMAIN delayLog : queue' = Append(queue, delayLog[i])
    /\ UNCHANGED <<svcVars, reportVars, dbVars, nextBatchId, ing, proc, cache, histVars>>

\* the steps of the tasks when enrichment does not fail
ProcessWithoutFailure(ws) ==
    \/ \E w \in ws : SweepStart(w)
    \/ \E w \in ws : SweepReturn(w)
    \/ \E w \in ws : TriggerStart(w)
    \/ \E w \in ws : ProcessBegin(w)
    \/ \E w \in ws : ProcessComplete(w)

Process(ws) ==
    \/ \E w \in ws : SweepStart(w)
    \/ \E w \in ws : SweepReturn(w)
    \/ \E w \in ws : SweepExcept(w)
    \/ \E w \in ws : TriggerStart(w)
    \/ \E w \in ws : TriggerExcept(w)
    \/ \E w \in ws : ProcessBegin(w)
    \/ \E w \in ws : ProcessComplete(w)
    \/ \E w \in ws : ProcessRaise(w)

-----------------------------------------------------------------------------
(* The services on their own: calls, reference data and its administration *)

Str_blank == <<" ", " ">>

Str_ub == <<"u", "b">>

Str_ub_padded == <<" ", "u", "b", " ">>

Str_star == <<"s", "t", "a", "r">>

Str_Transport == <<"T", "r", "a", "n", "s", "p", "o", "r", "t">>

Str_UberCab_padded == <<" ", "U", "b", "e", "r", " ", "C", "a", "b", " ">>

\* a pattern with capitals and padding and one that is too short in food, and
\* a capitalised category name
AmbiguousStore ==
    << [name |-> Str_food, patterns |-> <<Str_ub, Str_UberCab_padded>>],
       [name |-> Str_Transport, patterns |-> <<Str_uber, Str_lyft>>] >>

\* two Category rows whose names differ in case only (name is unique as stored)
CollidingStore ==
    << [name |-> Str_Transport, patterns |-> <<Str_lyft>>],
       [name |-> Str_transport, patterns |-> <<Str_uber>>] >>

Stores == {PatternStore, AmbiguousStore, CollidingStore, << >>}

\* values passed as transaction_text, merchant_name and description
Texts ==
    {NoneText, << >>, Str_blank, Str_ub, Str_ub_padded, Str_star, Str_Uber,
     Str_UberTrip, Str_StarbucksCoffee, Str_lyft}

Fields == {NoneText, << >>, Str_blank, Str_ub_padded, Str_UberTrip, Str_StarbucksCoffee}

\* the reference data after each edit made through the admin site:
\* CategoryPatternAdmin.save_model adds "uber" to food, then
\* CategoryAdmin.delete_model removes food
AdminEdits ==
    << << [name |-> Str_food, patterns |-> <<Str_restaurant, Str_starbucks, Str_uber>>],
          [name |-> Str_transport, patterns |-> <<Str_uber, Str_lyft>>] >>,
       << [name |-> Str_transport, patterns |-> <<Str_uber, Str_lyft>>] >> >>

\* the reference data once n edits are saved
StoreAfter(n) == IF n = 0 THEN PatternStore ELSE AdminEdits[n]

Callers == {"c1", "c2"}

CallIdle ==
    [pc |-> "idle", op |-> NULL, merchant_name |-> NoneText, description |-> NoneText,
     transaction_text |-> NoneText, snapshot |-> NoCache, result |-> NoneText,
     invoked |-> FALSE, must |-> 0]

AdminIdle == [pc |-> "idle", saved |-> 0]

\* the edits saved whose cache.delete has been made too
EditsCompleted == IF adminOp.pc = "saved" THEN adminOp.saved - 1 ELSE adminOp.saved

-----------------------------------------------------------------------------
(* Reporting: AccountSummaryAPIView.get *)

\* a DateTimeField value counts TicksPerDay instants per day: instant 0 is
\* time.min (00:00:00) and instant TicksPerDay - 1 is time.max (23:59:59.999999)
TicksPerDay == 4

At(day, tick) == day * TicksPerDay + tick

Str_shopping == <<"s", "h", "o", "p", "p", "i", "n", "g">>

Str_income == <<"i", "n", "c", "o", "m", "e">>

Str_Uncategorized ==
    <<"U", "n", "c", "a", "t", "e", "g", "o", "r", "i", "z", "e", "d">>

\* a stored Transaction row; amounts are in hundredths
Row(id, account_id, amount, date, category, ingestion_status) ==
    [transaction_id |-> id, account_id |-> account_id, batch |-> 0, amount |-> amount,
     currency |-> "USD", date |-> date, description |-> NoneText,
     merchant_name |-> NoneText, category |-> category,
     ingestion_status |-> ingestion_status]

\* the rows of AccountSummaryAPITest.setUp: January is days 1 to 31,
\* 15 February is day 46
TestLedger ==
    {Row("txn_summary_001", "acc_1", -2500, At(5, 1), Str_food, COMPLETED),
     Row("txn_summary_002", "acc_1", -1500, At(10, 2), Str_food, COMPLETED),
     Row("txn_summary_003", "acc_1", -2000, At(15, 2), Str_food, COMPLETED),
     Row("txn_summary_004", "acc_1", -3000, At(8, 1), Str_transport, COMPLETED),
     Row("txn_summary_005", "acc_1", -1500, At(20, 2), Str_transport, COMPLETED),
     Row("txn_summary_006", "acc_1", -10000, At(12, 2), Str_shopping, COMPLETED),
     Row("txn_summary_007", "acc_1", 250000, At(1, 1), Str_income, COMPLETED),
     Row("txn_summary_008", "acc_1", -5000, At(25, 1), Str_shopping, PENDING),
     Row("txn_summary_009", "acc_1", -2500, At(28, 2), Str_other, FAILED),
     Row("txn_summary_010", "acc_1", -99999, At(46, 1), Str_other, COMPLETED)}

\* rows at the edges of the window, of another account, without a category,
\* with amount 0 and with equal totals per category
EdgeRows ==
    {Row("e01", "acc_1", -1000, At(1, 0), Str_food, COMPLETED),
     Row("e02", "acc_1", -1000, At(31, 3), Str_transport, COMPLETED),
     Row("e03", "acc_1", -5000, At(32, 0), Str_shopping, COMPLETED),
     Row("e04", "acc_1", 7000, At(0, 3), Str_income, COMPLETED),
     Row("e05", "acc_1", 0, At(10, 1), Str_other, PENDING),
     Row("e06", "acc_1", -300, At(12, 2), NoneText, PENDING),
     Row("e07", "acc_2", -4000, At(15, 1), Str_food, FAILED),
     Row("e08", "acc_1", -2000, At(20, 1), Str_shopping, PROCESSING),
     Row("e09", "acc_1", 1500, At(31, 0), Str_income, COMPLETED),
     Row("e10", "acc_1", -300, At(5, 1), Str_other, COMPLETED)}

\* the requests: account_id with start_date and end_date as day numbers
Requests ==
    {[account_id |-> "acc_1", start_date |-> 1, end_date |-> 31],
     [account_id |-> "acc_1", start_date |-> 31, end_date |-> 31],
     [account_id |-> "acc_2", start_date |-> 1, end_date |-> 31],
     [account_id |-> "acc_3", start_date |-> 1, end_date |-> 31],
     [account_id |-> "acc_1", start_date |-> 31, end_date |-> 1],
     [account_id |-> "acc_1", start_date |-> 1, end_date |-> 367],
     [account_id |-> "acc_1", start_date |-> 1, end_date |-> 366]}

NoSummary == [code |-> 0]

\* the view between requests; metrics and top_categories are the local
\* variables of get
SummaryIdle ==
    [pc |-> "idle", query |-> NoSummary, request |-> NoSummary, response |-> NoSummary,
     cached |-> FALSE, metrics |-> NoSummary, top_categories |-> << >>]

\* the web workers that serve summary requests
Handlers == {"v1", "v2"}

\* no summary request is being served, nothing is cached, the cache store is
\* up and amounts are counted in hundredths
ReportingIdle ==
    /\ summary = [h \in Handlers |-> SummaryIdle]
    /\ summaryCache = [r \in Requests |-> NoSummary]
    /\ cacheUp = TRUE
    /\ amountExp = 0
    /\ served = [r \in Requests |-> NoSummary]

\* date strings of the query parameters
Date_2024_01_01 == <<"2", "0", "2", "4", "-", "0", "1", "-", "0", "1">>

Date_2024_01_31 == <<"2", "0", "2", "4", "-", "0", "1", "-", "3", "1">>

Date_2024_1_31 == <<"2", "0", "2", "4", "-", "1", "-", "3", "1">>

Date_2024_12_31 == <<"2", "0", "2", "4", "-", "1", "2", "-", "3", "1">>

Date_2025_01_01 == <<"2", "0", "2", "5", "-", "0", "1", "-", "0", "1">>

Date_01_01_2024 == <<"0", "1", "-", "0", "1", "-", "2", "0", "2", "4">>

Date_2024_02_30 == <<"2", "0", "2", "4", "-", "0", "2", "-", "3", "0">>

Date_2023_02_29 == <<"2", "0", "2", "3", "-", "0", "2", "-", "2", "9">>

Date_with_time == <<"2", "0", "2", "4", "-", "0", "1", "-", "0", "1", "T", "0", "0", ":", "0", "0">>

Date_2024_13_01 == <<"2", "0", "2", "4", "-", "1", "3", "-", "0", "1">>

\* a parameter that is absent from the query string
Absent == NoneText

DigitChars == {"0", "1", "2", "3", "4", "5", "6", "7", "8", "9"}

DigitValue(c) ==
    CASE c = "0" -> 0 [] c = "1" -> 1 [] c = "2" -> 2 [] c = "3" -> 3 [] c = "4" -> 4
      [] c = "5" -> 5 [] c = "6" -> 6 [] c = "7" -> 7 [] c = "8" -> 8 [] c = "9" -> 9

\* the number written by a tuple of digit characters
RECURSIVE NumberOf(_)
NumberOf(ds) ==
    IF ds = << >> THEN 0
    ELSE 10 * NumberOf(SubSeq(ds, 1, Len(ds) - 1)) + DigitValue(ds[Len(ds)])

AllDigits(ds) == \A i \in DOMAIN ds : ds[i] \in DigitChars

\* the directive %Y of strptime: four digits
MatchesYear(ds) == Len(ds) = 4 /\ AllDigits(ds)

\* the directive %m of strptime: 1[0-2], 0[1-9] or [1-9]
MatchesMonth(ds) ==
    /\ Len(ds) \in {1, 2}
    /\ AllDigits(ds)
    /\ NumberOf(ds) \in 1..12

\* the directive %d of strptime: 3[0-1], [1-2]\d, 0[1-9], [1-9] or a space
\* and [1-9]
MatchesDay(ds) ==
    \/ /\ Len(ds) \in {1, 2}
       /\ AllDigits(ds)
       /\ NumberOf(ds) \in 1..31
    \/ /\ Len(ds) = 2
       /\ ds[1] = " "
       /\ ds[2] \in DigitChars \ {"0"}

IsLeap(y) == (y % 4 = 0 /\ y % 100 # 0) \/ y % 400 = 0

DaysInMonth(y, mo) ==
    IF mo = 2 THEN (IF IsLeap(y) THEN 29 ELSE 28)
    ELSE IF mo \in {4, 6, 9, 11} THEN 30 ELSE 31

RECURSIVE DaysBeforeMonth(_, _)
DaysBeforeMonth(y, mo) ==
    IF mo = 1 THEN 0 ELSE DaysBeforeMonth(y, mo - 1) + DaysInMonth(y, mo - 1)

\* date.toordinal()
ToOrdinal(y, mo, d) ==
    LET p == y - 1
    IN  365 * p + (p \div 4) - (p \div 100) + (p \div 400) + DaysBeforeMonth(y, mo) + d

\* the day number of a date: 1 is 1 January 2024
DayNumber(y, mo, d) == ToOrdinal(y, mo, d) - ToOrdinal(2023, 12, 31)

\* the result of a strptime that raises ValueError or TypeError
NoDate == -1000000

\* datetime.strptime(s, '%Y-%m-%d').date() as a day number: the whole string
\* has to match year, "-", month, "-", day, and the date has to exist
strptime(s) ==
    LET dashes == {i \in DOMAIN s : s[i] = "-"}
    IN  IF s = NoneText \/ Cardinality(dashes) # 2 THEN NoDate
        ELSE LET i1 == CHOOSE i \in dashes : \A j \in dashes : i <= j
                 i2 == CHOOSE i \in dashes : \A j \in dashes : j <= i
                 ys == SubSeq(s, 1, i1 - 1)
                 ms == SubSeq(s, i1 + 1, i2 - 1)
                 ds == SubSeq(s, i2 + 1, Len(s))
             IN  IF ~(MatchesYear(ys) /\ MatchesMonth(ms) /\ MatchesDay(ds)) THEN NoDate
                 ELSE LET y == NumberOf(ys)
                          mo == NumberOf(ms)
                          d == NumberOf(IF ds[1] = " " THEN Tail(ds) ELSE ds)
                      IN  IF y < 1 \/ d > DaysInMonth(y, mo) THEN NoDate
                          ELSE DayNumber(y, mo, d)

\* the same requests as they arrive: the account of the path and the query
\* parameters start_date and end_date, each date being written in one way
Query(account_id, start_date_str, end_date_str) ==
    [account_id |-> account_id, start_date_str |-> start_date_str,
     end_date_str |-> end_date_str]

Queries ==
    {Query(a, Date_2024_01_01, Date_2024_01_31) : a \in {"acc_1", "acc_2", "acc_3"}}
    \cup
    {Query("acc_1", q[1], q[2]) : q \in
        {<<Date_2024_1_31, Date_2024_1_31>>,
         <<Date_2024_01_01, Date_2024_12_31>>,
         <<Date_2024_01_01, Date_2025_01_01>>,
         <<Date_2024_01_31, Date_2024_01_01>>,
         <<Absent, Date_2024_01_31>>,
         <<Date_2024_01_01, Absent>>,
         <<<< >>, Date_2024_01_31>>,
         <<Date_2024_01_01, << >>>>,
         <<Date_01_01_2024, Date_2024_01_31>>,
         <<Date_2024_01_01, Date_2024_02_30>>,
         <<Date_2023_02_29, Date_2024_01_31>>,
         <<Date_with_time, Date_2024_01_31>>,
         <<Date_2024_01_01, Date_2024_13_01>>}}

\* variant: the length of the range is not checked
validate_date_range_ordered(start_date, end_date) == end_date >= start_date

\* validate_date_range on parsed dates: end_date >= start_date and at most
\* 365 days between them
validate_date_range(start_date, end_date) ==
    /\ end_date >= start_date
    /\ end_date - start_date <= 365

\* `not start_date_str`: the parameter is absent or empty
missing(param) == param = Absent \/ param = << >>

\* lines 106-123 of get: both parameters are present, both parse and
\* validate_date_range accepts the dates
query_accepted(q) ==
    /\ ~missing(q.start_date_str)
    /\ ~missing(q.end_date_str)
    /\ strptime(q.start_date_str) # NoDate
    /\ strptime(q.end_date_str) # NoDate
    /\ validate_date_range(strptime(q.start_date_str), strptime(q.end_date_str))

\* the account and the two dates that get works with
Parsed(q) ==
    [account_id |-> q.account_id,
     start_date |-> strptime(q.start_date_str),
     end_date |-> strptime(q.end_date_str)]

\* validate_account: some transaction of the account is stored
validate_account(table, account_id) == \E t \in table : t.account_id = account_id

\* datetime.combine(start_date, time.min)
start_datetime(start_date) == At(start_date, 0)

\* variant: the end of the window is the first instant of end_date
end_datetime_min(end_date) == At(end_date, 0)

\* datetime.combine(end_date, time.max)
end_datetime(end_date) == At(end_date, TicksPerDay - 1)

\* Transaction.objects.filter(account_id=..., date__gte=..., date__lte=...)
transactions_qs(table, r) ==
    {t \in table : /\ t.account_id = r.account_id
                   /\ t.date >= start_datetime(r.start_date)
                   /\ t.date <= end_datetime(r.end_date)}

\* Sum('amount') over a set of rows that is not empty
RECURSIVE SumAmount(_)
SumAmount(rows) ==
    IF rows = {} THEN 0
    ELSE LET t == CHOOSE x \in rows : TRUE
         IN  t.amount + SumAmount(rows \ {t})

abs(x) == IF x < 0 THEN 0 - x ELSE x

\* variant: the magnitude of the spend is added
net_of_magnitude(total_income, total_spend) == total_income + abs(total_spend)

\* net = total_income + total_spend, total_spend being negative
net_of(total_income, total_spend) == total_income + total_spend

\* the aggregate() query with its defaults: a Sum over no row is None and is
\* replaced by 0; total_spend keeps its sign
summary_metrics(qs) ==
    [total_transactions |-> Cardinality(qs),
     total_spend |-> SumAmount({t \in qs : t.amount < 0}),
     total_income |-> SumAmount({t \in qs : t.amount >= 0})]

\* response_data['metrics']
metrics_of(m) ==
    [total_transactions |-> m.total_transactions,
     total_spend |-> abs(m.total_spend),
     total_income |-> m.total_income,
     net |-> net_of(m.total_income, m.total_spend)]

\* .filter(amount__lt=0).values('category').annotate(total_spend=Sum('amount'),
\* transaction_count=Count('id')): one row per category, NULL being one group
category_groups(qs) ==
    LET spent == {t \in qs : t.amount < 0}
    IN  {[category |-> c,
          total_spend |-> SumAmount({t \in spent : t.category = c}),
          transaction_count |-> Cardinality({t \in spent : t.category = c})]
         : c \in {t.category : t \in spent}}

\* variant: the greatest total_spend comes first
order_by_total_spend_desc(groups) ==
    {s \in [1..Cardinality(groups) -> groups] :
        /\ \A i, j \in DOMAIN s : i # j => s[i] # s[j]
        /\ \A i, j \in DOMAIN s : i < j => s[i].total_spend >= s[j].total_spend}

\* .order_by('total_spend'): the orders in which the database may return the
\* groups, rows with equal total_spend coming in any order
order_by_total_spend(groups) ==
    {s \in [1..Cardinality(groups) -> groups] :
        /\ \A i, j \in DOMAIN s : i # j => s[i] # s[j]
        /\ \A i, j \in DOMAIN s : i < j => s[i].total_spend <= s[j].total_spend}

\* [:3]
Limit3(s) == SubSeq(s, 1, IF Len(s) < 3 THEN Len(s) ELSE 3)

\* the list comprehension that builds top_categories
top_categories_of(data) ==
    [i \in 1..Len(data) |->
        [category |-> IF data[i].category = NoneText \/ data[i].category = << >>
                      THEN Str_Uncategorized ELSE data[i].category,
         total_spend |-> abs(data[i].total_spend),
         transaction_count |-> data[i].transaction_count]]

\* round(x, 2) of a Decimal quotient, in hundredths: ties go to the even digit
round_half_even(num, den) ==
    LET q == num \div den
        r == num % den
    IN  IF 2 * r > den \/ (2 * r = den /\ q % 2 = 1) THEN q + 1 ELSE q

\* TopCategorySerializer.get_percentage_of_spend, in hundredths of a percent
get_percentage_of_spend(obj, total_spend) ==
    IF total_spend = 0 THEN 0
    ELSE round_half_even(abs(obj.total_spend) * 10000, abs(total_spend))

\* the number of decimal digits of a natural number, 0 having none
RECURSIVE DigitsOf(_)
DigitsOf(n) == IF n = 0 THEN 0 ELSE 1 + DigitsOf(n \div 10)

\* DecimalField(max_digits=12, decimal_places=2).validate_precision on a value
\* counted in units of 10^exp hundredths
fits_max_digits(value, exp) ==
    value = 0 \/ DigitsOf(abs(value)) + exp <= 12

\* serializer.is_valid: a CharField rejects a category that is blank once
\* trimmed, a DecimalField a value of more than 12 digits
summary_is_valid(m, top_categories, exp) ==
    /\ \A i \in DOMAIN top_categories :
          /\ strip(top_categories[i].category) # << >>
          /\ fits_max_digits(top_categories[i].total_spend, exp)
    /\ fits_max_digits(metrics_of(m).total_spend, exp)
    /\ fits_max_digits(metrics_of(m).total_income, exp)
    /\ fits_max_digits(metrics_of(m).net, exp)

\* serializer.data: the validated values, a CharField being trimmed
summary_data(r, m, top_categories, processing_status) ==
    [code |-> 200,
     account_id |-> r.account_id,
     date_range |-> [start |-> r.start_date, end |-> r.end_date],
     metrics |-> metrics_of(m),
     top_categories |->
        [i \in DOMAIN top_categories |->
            [category |-> strip(top_categories[i].category),
             total_spend |-> top_categories[i].total_spend,
             transaction_count |-> top_categories[i].transaction_count,
             percentage_of_spend |->
                get_percentage_of_spend(top_categories[i], m.total_spend)]],
     processing_status |-> processing_status]

\* transactions_qs.values('ingestion_status').annotate(count=Count('id')): one
\* item per status that occurs among the rows
status_breakdown_data(qs) ==
    {[ingestion_status |-> s,
      count |-> Cardinality({t \in qs : t.ingestion_status = s})]
     : s \in {t.ingestion_status : t \in qs}}

\* status_map.get(status_code, 'unknown')
status_map(status_code) ==
    CASE status_code = PENDING -> "pending"
      [] status_code = PROCESSING -> "processing"
      [] status_code = COMPLETED -> "completed"
      [] status_code = FAILED -> "failed"
      [] OTHER -> "unknown"

\* variant: a status without an item keeps no key in the result
processing_status_sparse(qs) ==
    LET data == status_breakdown_data(qs)
    IN  [name \in {status_map(item.ingestion_status) : item \in data} |->
            (CHOOSE item \in data : status_map(item.ingestion_status) = name).count]

\* the dict initialised to 0 for the four names and the loop that stores the
\* count of each item under its name
processing_status_of(qs) ==
    LET data == status_breakdown_data(qs)
    IN  [name \in {"pending", "processing", "completed", "failed"} |->
            IF \E item \in data : status_map(item.ingestion_status) = name
            THEN (CHOOSE item \in data : status_map(item.ingestion_status) = name).count
            ELSE 0]

-----------------------------------------------------------------------------
(* Specification *)

\* no request has been received and no task has run
PipelineIdle ==
    /\ accounts = {}
    /\ batches = {}
    /\ transactions = {}
    /\ nextBatchId = 1
    /\ ing = IngIdle
    /\ queue = << >>
    /\ proc = [w \in Workers |-> ProcIdle]
    /\ request = [b \in BatchIds |-> NoPayload]
    /\ delayLog = << >>
    /\ lastIngested = [a \in AccountIds |-> [account_id |-> NULL]]
    /\ writeCount = [i \in TxnIds |-> 0]
    /\ completions = [b \in BatchIds |-> 0]
    /\ crashedRuns = {}

Init ==
    /\ PipelineIdle
    /\ cache = NoCache
    /\ refData = PatternStore
    /\ call = [k \in Callers |-> CallIdle]
    /\ adminOp = AdminIdle
    /\ ReportingIdle

Next == Ingest \/ Process(Pool)

Spec == Init /\ [][Next]_vars

\* a sweep that outlasts its period runs beside the next one
NextOverlap == Ingest \/ Process(Sweepers \cup {"async_1"})

SpecOverlap == Init /\ [][NextOverlap]_vars

\* one sweep at a time and two trigger workers, every trigger message being
\* delivered any number of times, enrichment never failing
NextRedeliver ==
    \/ Ingest
    \/ ProcessWithoutFailure({"beat_1"} \cup Triggers)
    \/ TriggerRedeliver

SpecRedeliver == Init /\ [][NextRedeliver]_vars

\* one sweep at a time and one trigger worker, each of which may die while
\* it processes a batch
NextCrash == Ingest \/ Process(Pool) \/ Crash(Pool)

SpecCrash == Init /\ [][NextCrash]_vars

-----------------------------------------------------------------------------
(* Lost triggers and the periodic sweep *)

\* a process_batch_async message does not reach a worker: it is lost with the
\* broker or discarded as expired
TriggerLost ==
    /\ queue # << >>
    /\ queue' = Tail(queue)
    /\ UNCHANGED <<svcVars, reportVars, dbVars, nextBatchId, ing, proc, cache, histVars>>

NextLossy == Ingest \/ Process(Pool) \/ TriggerLost

\* beat sends process_pending_batches every 300 seconds, so a sweep starts
\* again whenever the sweep worker is idle, and every task that has started
\* goes on: the call of process_single_batch gets the row lock once it is
\* free, and the caller's handler and return follow. No delivery of a trigger
\* message is assumed.
Sweeping ==
    \A w \in Pool :
        /\ WF_vars(SweepStart(w))
        /\ WF_vars(SweepReturn(w))
        /\ WF_vars(SweepExcept(w))
        /\ WF_vars(TriggerExcept(w))
        /\ WF_vars(ProcessBegin(w))

\* every run of process_single_batch terminates: no worker stays inside the
\* atomic block for ever, it leaves it by ProcessComplete or by ProcessRaise
RunsTerminate ==
    \A w \in Pool : []<>(proc[w].pc # "run")

SpecSweeping == Init /\ [][NextLossy]_vars /\ Sweeping /\ RunsTerminate

-----------------------------------------------------------------------------
(* Administration site: BatchAdmin leaves status editable *)

\* the change form of a waiting Batch is saved with a status chosen by the
\* operator; the UPDATE waits for a row lock held by a processing run
AdminSaveBatch(b, st) ==
    /\ \E r \in batches : r.batch_id = b /\ r.status = PENDING
    /\ \A w \in Workers : ~HoldsLock(w, b)
    /\ batches' = SaveStatus(batches, b, st)
    /\ UNCHANGED <<svcVars, reportVars, accounts, transactions, nextBatchId, ing, queue, proc, cache, histVars>>

Admin == \E b \in BatchIds : AdminSaveBatch(b, PROCESSING)

NextAdmin == Ingest \/ Process(Pool) \/ Admin

SpecAdmin == Init /\ [][NextAdmin]_vars

-----------------------------------------------------------------------------
(* The services on their own: actions and specifications *)

\* everything of the pipeline but the pattern cache
pipeVars == <<dbVars, nextBatchId, ing, queue, proc, histVars>>

\* categorize from its first line to the call of _load_patterns
StartCategorize(p, text) ==
    IF CategorizeLoads(text)
    THEN [p EXCEPT !.pc = "get", !.transaction_text = text, !.invoked = TRUE,
                   !.must = EditsCompleted]
    ELSE [p EXCEPT !.pc = "done", !.transaction_text = text, !.invoked = TRUE,
                   !.must = EditsCompleted, !.result = Str_other]

\* a caller calls DatabaseCategorizer.categorize(text)
Categorize(k, text) ==
    /\ call[k].pc = "idle"
    /\ call' = [call EXCEPT ![k] = StartCategorize([CallIdle EXCEPT !.op = "categorize"], text)]
    /\ UNCHANGED <<pipeVars, reportVars, cache, refData, adminOp>>

\* a caller calls enrich_transaction(merchant_name, description)
EnrichTransaction(k, m, d) ==
    /\ call[k].pc = "idle"
    /\ call' = [call EXCEPT ![k] =
                   LET p == [CallIdle EXCEPT !.op = "enrich", !.merchant_name = m,
                                             !.description = d]
                   IN  IF EnrichCallsCategorizer(m, d)
                       THEN StartCategorize(p, text_to_categorize(m, d))
                       ELSE [p EXCEPT !.pc = "done", !.result = Str_other]]
    /\ UNCHANGED <<pipeVars, reportVars, cache, refData, adminOp>>

\* patterns = cache.get(CACHE_KEY): on a hit the snapshot is returned and
\* categorize runs its loops over it
LoadPatternsGet(k) ==
    /\ call[k].pc = "get"
    /\ call' = [call EXCEPT ![k] =
                   IF cache # NoCache
                   THEN [call[k] EXCEPT !.pc = "done", !.snapshot = cache,
                                  !.result = FirstMatch(strip(lower(call[k].transaction_text)), cache)]
                   ELSE [call[k] EXCEPT !.pc = "query"]]
    /\ UNCHANGED <<pipeVars, reportVars, cache, refData, adminOp>>

\* the database branch of _load_patterns: the categories and their patterns
\* are read and the dict is built
LoadPatternsQuery(k) ==
    /\ call[k].pc = "query"
    /\ call' = [call EXCEPT ![k] = [call[k] EXCEPT !.pc = "set",
                                             !.snapshot = BuildPatterns(refData, << >>)]]
    /\ UNCHANGED <<pipeVars, reportVars, cache, refData, adminOp>>

\* variant: the entry comes back from the cache with its categories in the
\* opposite order
LoadPatternsSet_reordered(k) ==
    /\ call[k].pc = "set"
    /\ cache' = [i \in 1..Len(call[k].snapshot) |->
                    call[k].snapshot[Len(call[k].snapshot) + 1 - i]]
    /\ call' = [call EXCEPT ![k] =
                   [call[k] EXCEPT !.pc = "done",
                             !.result = FirstMatch(strip(lower(call[k].transaction_text)), call[k].snapshot)]]
    /\ UNCHANGED <<pipeVars, reportVars, refData, adminOp>>

\* cache.set(CACHE_KEY, patterns, CACHE_TIMEOUT), then the loops of categorize
LoadPatternsSet(k) ==
    /\ call[k].pc = "set"
    /\ cache' = call[k].snapshot
    /\ call' = [call EXCEPT ![k] =
                   [call[k] EXCEPT !.pc = "done",
                             !.result = FirstMatch(strip(lower(call[k].transaction_text)), call[k].snapshot)]]
    /\ UNCHANGED <<pipeVars, reportVars, refData, adminOp>>

\* the caller has its result
CallReturn(k) ==
    /\ call[k].pc = "done"
    /\ call' = [call EXCEPT ![k] = CallIdle]
    /\ UNCHANGED <<pipeVars, reportVars, cache, refData, adminOp>>

\* the cache entry is dropped CACHE_TIMEOUT seconds after it was set
CacheExpire ==
    /\ cache # NoCache
    /\ cache' = NoCache
    /\ UNCHANGED <<pipeVars, reportVars, refData, call, adminOp>>

\* save_model / delete_model of CategoryAdmin and CategoryPatternAdmin:
\* super().save_model(...) or super().delete_model(...) writes the row
CategorySaveModel ==
    /\ adminOp.pc = "idle"
    /\ adminOp.saved < Len(AdminEdits)
    /\ refData' = AdminEdits[adminOp.saved + 1]
    /\ adminOp' = [pc |-> "saved", saved |-> adminOp.saved + 1]
    /\ UNCHANGED <<pipeVars, reportVars, cache, call>>

\* ... and cache.delete('transaction_category_patterns') follows
CategoryCacheDelete ==
    /\ adminOp.pc = "saved"
    /\ cache' = NoCache
    /\ adminOp' = [adminOp EXCEPT !.pc = "idle"]
    /\ UNCHANGED <<pipeVars, reportVars, refData, call>>

\* one caller, any text, any reference data, any cache entry
InitCategorizer ==
    /\ PipelineIdle
    /\ refData \in Stores
    /\ cache \in {NoCache} \cup {BuildPatterns(s, << >>) : s \in Stores}
    /\ call = [k \in Callers |-> CallIdle]
    /\ adminOp = AdminIdle
    /\ ReportingIdle

NextCategorizer ==
    \/ \E t \in Texts : Categorize("c1", t)
    \/ \E m \in Fields : \E d \in Fields : EnrichTransaction("c1", m, d)
    \/ LoadPatternsGet("c1")
    \/ LoadPatternsQuery("c1")
    \/ LoadPatternsSet("c1")
    \/ CallReturn("c1")
    \/ CacheExpire

SpecCategorizer == InitCategorizer /\ [][NextCategorizer]_vars

\* nothing is cached when the service starts, and the reference data is any
\* of the stores
InitSnapshot ==
    /\ PipelineIdle
    /\ refData \in Stores
    /\ cache = NoCache
    /\ call = [k \in Callers |-> CallIdle]
    /\ adminOp = AdminIdle
    /\ ReportingIdle

\* two callers categorize while the cache entry is set, hit and expires, and
\* nothing is written to Category or CategoryPattern
NextSnapshot ==
    \/ \E k \in Callers : \E t \in Texts : Categorize(k, t)
    \/ \E k \in Callers : LoadPatternsGet(k)
    \/ \E k \in Callers : LoadPatternsQuery(k)
    \/ \E k \in Callers : LoadPatternsSet(k)
    \/ \E k \in Callers : CallReturn(k)
    \/ CacheExpire

SpecSnapshot == InitSnapshot /\ [][NextSnapshot]_vars

\* two callers and the admin site on the reference data of the pipeline
NextInvalidation ==
    \/ \E k \in Callers : Categorize(k, Str_UberTrip)
    \/ \E k \in Callers : LoadPatternsGet(k)
    \/ \E k \in Callers : LoadPatternsQuery(k)
    \/ \E k \in Callers : LoadPatternsSet(k)
    \/ \E k \in Callers : CallReturn(k)
    \/ CacheExpire
    \/ CategorySaveModel
    \/ CategoryCacheDelete

SpecInvalidation == Init /\ [][NextInvalidation]_vars

-----------------------------------------------------------------------------
(* Reporting: actions and specifications *)

\* get up to the first query, for dates that have been parsed: the range is
\* validated, then the cache is read, then the account is looked up; a
\* cache.get that raises ends in the handler for Exception
Taken(r) ==
    IF ~validate_date_range(r.start_date, r.end_date)
    THEN [SummaryIdle EXCEPT !.pc = "done", !.request = r,
                             !.response = [code |-> 400]]
    ELSE IF ~cacheUp
    THEN [SummaryIdle EXCEPT !.pc = "done", !.request = r,
                             !.response = [code |-> 500]]
    ELSE IF summaryCache[r] # NoSummary
    THEN [SummaryIdle EXCEPT !.pc = "done", !.request = r,
                             !.response = summaryCache[r], !.cached = TRUE]
    ELSE IF ~validate_account(transactions, r.account_id)
    THEN [SummaryIdle EXCEPT !.pc = "done", !.request = r,
                             !.response = [code |-> 404]]
    ELSE [SummaryIdle EXCEPT !.pc = "aggregate", !.request = r]

\* GET /accounts/<account_id>/summary with well-formed dates, given as day
\* numbers
SummaryGet(h, r) ==
    /\ summary[h].pc = "idle"
    /\ summary' = [summary EXCEPT ![h] = Taken(r)]
    /\ UNCHANGED <<pipeVars, svcVars, cache, summaryCache, cacheUp, amountExp, served>>

\* GET /accounts/<account_id>/summary with the query parameters as they
\* arrive: a missing or unparsable date raises ValidationError, answered
\* with 400
SummaryQuery(h, q) ==
    /\ summary[h].pc = "idle"
    /\ summary' = [summary EXCEPT ![h] =
         IF ~query_accepted(q)
         THEN [SummaryIdle EXCEPT !.pc = "done", !.query = q,
                                  !.response = [code |-> 400]]
         ELSE [Taken(Parsed(q)) EXCEPT !.query = q]]
    /\ UNCHANGED <<pipeVars, svcVars, cache, summaryCache, cacheUp, amountExp, served>>

\* transactions_qs.aggregate(...)
SummaryAggregate(h) ==
    /\ summary[h].pc = "aggregate"
    /\ summary' = [summary EXCEPT
                     ![h].pc = "top_categories",
                     ![h].metrics =
                        summary_metrics(transactions_qs(transactions, summary[h].request))]
    /\ UNCHANGED <<pipeVars, svcVars, cache, summaryCache, cacheUp, amountExp, served>>

\* the top categories query and the list built from it
SummaryTopCategories(h) ==
    /\ summary[h].pc = "top_categories"
    /\ \E s \in order_by_total_spend(
                    category_groups(transactions_qs(transactions, summary[h].request))) :
          summary' = [summary EXCEPT ![h].pc = "status_breakdown",
                                     ![h].top_categories = top_categories_of(Limit3(s))]
    /\ UNCHANGED <<pipeVars, svcVars, cache, summaryCache, cacheUp, amountExp, served>>

\* the status breakdown query, the serializer, cache.set and the response; a
\* cache.set that raises ends in the handler for Exception
SummaryRespond(h) ==
    /\ summary[h].pc = "status_breakdown"
    /\ LET r == summary[h].request
           data == summary_data(r, summary[h].metrics, summary[h].top_categories,
                       processing_status_of(transactions_qs(transactions, r)))
       IN  IF ~summary_is_valid(summary[h].metrics, summary[h].top_categories, amountExp)
           THEN /\ summary' = [summary EXCEPT ![h].pc = "done",
                                              ![h].response = [code |-> 400]]
                /\ UNCHANGED <<summaryCache, served>>
           ELSE IF ~cacheUp
           THEN /\ summary' = [summary EXCEPT ![h].pc = "done",
                                              ![h].response = [code |-> 500]]
                /\ UNCHANGED <<summaryCache, served>>
           ELSE /\ summaryCache' = [summaryCache EXCEPT ![r] = data]
                /\ summary' = [summary EXCEPT ![h].pc = "done", ![h].response = data]
                /\ served' = [served EXCEPT ![r] = IF @ = NoSummary THEN data ELSE @]
    /\ UNCHANGED <<pipeVars, svcVars, cache, cacheUp, amountExp>>

\* the response has been sent
SummaryReturn(h) ==
    /\ summary[h].pc = "done"
    /\ summary' = [summary EXCEPT ![h] = SummaryIdle]
    /\ UNCHANGED <<pipeVars, svcVars, cache, summaryCache, cacheUp, amountExp, served>>

\* a cached summary reaches its timeout of 300 seconds
SummaryCacheExpire ==
    /\ \E r \in Requests :
          /\ summaryCache[r] # NoSummary
          /\ summaryCache' = [summaryCache EXCEPT ![r] = NoSummary]
          /\ served' = [served EXCEPT ![r] = NoSummary]
    /\ UNCHANGED <<pipeVars, svcVars, cache, summary, cacheUp, amountExp>>

\* any ledger of stored transactions, no summary cached
InitSummary ==
    /\ accounts = {}
    /\ batches = {}
    /\ transactions \in {TestLedger} \cup SUBSET EdgeRows
    /\ nextBatchId = 1
    /\ ing = IngIdle
    /\ queue = << >>
    /\ proc = [w \in Workers |-> ProcIdle]
    /\ request = [b \in BatchIds |-> NoPayload]
    /\ delayLog = << >>
    /\ lastIngested = [a \in AccountIds |-> [account_id |-> NULL]]
    /\ writeCount = [i \in TxnIds |-> 0]
    /\ completions = [b \in BatchIds |-> 0]
    /\ crashedRuns = {}
    /\ cache = NoCache
    /\ refData = PatternStore
    /\ call = [k \in Callers |-> CallIdle]
    /\ adminOp = AdminIdle
    /\ ReportingIdle

\* one web worker
NextSummary ==
    \/ \E r \in Requests : SummaryGet("v1", r)
    \/ SummaryAggregate("v1")
    \/ SummaryTopCategories("v1")
    \/ SummaryRespond("v1")
    \/ SummaryReturn("v1")
    \/ SummaryCacheExpire

SpecSummary == InitSummary /\ [][NextSummary]_vars

\* amounts near the 19 digits of Transaction.amount, counted in units of
\* 10^8 hundredths: 6,000,000,000.00 and 5,000,000,000.00 spent,
\* 3,000,000,000.00 received
LargeExp == 8

LargeRows ==
    {Row("g01", "acc_1", -6000, At(5, 1), Str_shopping, COMPLETED),
     Row("g02", "acc_1", -5000, At(10, 1), Str_food, COMPLETED),
     Row("g03", "acc_1", 3000, At(12, 1), Str_income, COMPLETED)}

\* any ledger of large amounts is stored
InitLarge ==
    /\ accounts = {}
    /\ batches = {}
    /\ transactions \in SUBSET LargeRows
    /\ nextBatchId = 1
    /\ ing = IngIdle
    /\ queue = << >>
    /\ proc = [w \in Workers |-> ProcIdle]
    /\ request = [b \in BatchIds |-> NoPayload]
    /\ delayLog = << >>
    /\ lastIngested = [a \in AccountIds |-> [account_id |-> NULL]]
    /\ writeCount = [i \in TxnIds |-> 0]
    /\ completions = [b \in BatchIds |-> 0]
    /\ crashedRuns = {}
    /\ cache = NoCache
    /\ refData = PatternStore
    /\ call = [k \in Callers |-> CallIdle]
    /\ adminOp = AdminIdle
    /\ summary = [h \in Handlers |-> SummaryIdle]
    /\ summaryCache = [r \in Requests |-> NoSummary]
    /\ cacheUp = TRUE
    /\ amountExp = LargeExp
    /\ served = [r \in Requests |-> NoSummary]

SpecLarge == InitLarge /\ [][NextSummary]_vars

\* the ledger of the tests or the ledger of edge rows is stored
InitDates ==
    /\ accounts = {}
    /\ batches = {}
    /\ transactions \in {TestLedger, EdgeRows}
    /\ nextBatchId = 1
    /\ ing = IngIdle
    /\ queue = << >>
    /\ proc = [w \in Workers |-> ProcIdle]
    /\ request = [b \in BatchIds |-> NoPayload]
    /\ delayLog = << >>
    /\ lastIngested = [a \in AccountIds |-> [account_id |-> NULL]]
    /\ writeCount = [i \in TxnIds |-> 0]
    /\ completions = [b \in BatchIds |-> 0]
    /\ crashedRuns = {}
    /\ cache = NoCache
    /\ refData = PatternStore
    /\ call = [k \in Callers |-> CallIdle]
    /\ adminOp = AdminIdle
    /\ ReportingIdle

\* one web worker, the requests arriving with their query parameters
NextDates ==
    \/ \E q \in Queries : SummaryQuery("v1", q)
    \/ SummaryAggregate("v1")
    \/ SummaryTopCategories("v1")
    \/ SummaryRespond("v1")
    \/ SummaryReturn("v1")
    \/ SummaryCacheExpire

SpecDates == InitDates /\ [][NextDates]_vars

\* the cache store stops answering: cache.get and cache.set raise
CacheOutage ==
    /\ cacheUp
    /\ cacheUp' = FALSE
    /\ UNCHANGED <<pipeVars, svcVars, cache, summary, summaryCache, amountExp, served>>

\* the cache store answers again
CacheRestore ==
    /\ ~cacheUp
    /\ cacheUp' = TRUE
    /\ UNCHANGED <<pipeVars, svcVars, cache, summary, summaryCache, amountExp, served>>

\* one web worker and a cache store that comes and goes
NextOutage ==
    \/ \E r \in Requests : SummaryGet("v1", r)
    \/ SummaryAggregate("v1")
    \/ SummaryTopCategories("v1")
    \/ SummaryRespond("v1")
    \/ SummaryReturn("v1")
    \/ SummaryCacheExpire
    \/ CacheOutage
    \/ CacheRestore

SpecOutage == InitDates /\ [][NextOutage]_vars

\* the rows of the ledger that changes while summaries are served: one row
\* is stored from the start, two more can be ingested
LiveLedger ==
    {[Row("l01", "acc_1", -1000, At(5, 1), NoneText, PENDING)
        EXCEPT !.merchant_name = Str_UberTrip]}

LiveRows ==
    {Row("l02", "acc_1", -2500, At(10, 2), NoneText, PENDING),
     Row("l03", "acc_2", 4000, At(15, 1), NoneText, PENDING)}

\* the requests made against the changing ledger
LiveRequests ==
    {[account_id |-> "acc_1", start_date |-> 1, end_date |-> 31],
     [account_id |-> "acc_2", start_date |-> 1, end_date |-> 31]}

\* the commit of an ingestion that inserts row t: bulk_create with
\* ignore_conflicts adds the row unless its transaction_id is stored
LedgerAdd(t) ==
    /\ \A x \in transactions : x.transaction_id # t.transaction_id
    /\ transactions' = transactions \cup {t}
    /\ UNCHANGED <<accounts, batches, nextBatchId, ing, queue, proc, histVars,
                   svcVars, reportVars, cache>>

\* the commit of a processing run that enriches the pending row t
LedgerEnrich(t) ==
    /\ t \in transactions
    /\ t.ingestion_status = PENDING
    /\ transactions' = bulk_update(transactions, {t}, NoCache)
    /\ UNCHANGED <<accounts, batches, nextBatchId, ing, queue, proc, histVars,
                   svcVars, reportVars, cache>>

InitLive ==
    /\ accounts = {}
    /\ batches = {}
    /\ transactions = LiveLedger
    /\ nextBatchId = 1
    /\ ing = IngIdle
    /\ queue = << >>
    /\ proc = [w \in Workers |-> ProcIdle]
    /\ request = [b \in BatchIds |-> NoPayload]
    /\ delayLog = << >>
    /\ lastIngested = [a \in AccountIds |-> [account_id |-> NULL]]
    /\ writeCount = [i \in TxnIds |-> 0]
    /\ completions = [b \in BatchIds |-> 0]
    /\ crashedRuns = {}
    /\ cache = NoCache
    /\ refData = PatternStore
    /\ call = [k \in Callers |-> CallIdle]
    /\ adminOp = AdminIdle
    /\ ReportingIdle

\* two web workers serve summaries while rows are ingested and enriched
NextLive ==
    \/ \E h \in Handlers : \E r \in LiveRequests : SummaryGet(h, r)
    \/ \E h \in Handlers : SummaryAggregate(h)
    \/ \E h \in Handlers : SummaryTopCategories(h)
    \/ \E h \in Handlers : SummaryRespond(h)
    \/ \E h \in Handlers : SummaryReturn(h)
    \/ SummaryCacheExpire
    \/ \E t \in LiveRows : LedgerAdd(t)
    \/ \E t \in LiveLedger \cup LiveRows : LedgerEnrich(t)

SpecLive == InitLive /\ [][NextLive]_vars

\* requests for an account without transactions, for an account with one,
\* and with a range that is too long
UnknownRequests ==
    {[account_id |-> "acc_2", start_date |-> 1, end_date |-> 31],
     [account_id |-> "acc_1", start_date |-> 1, end_date |-> 31],
     [account_id |-> "acc_1", start_date |-> 1, end_date |-> 367]}

\* two web workers serve these requests while the first transaction of
\* acc_2 is ingested
NextUnknown ==
    \/ \E h \in Handlers : \E r \in UnknownRequests : SummaryGet(h, r)
    \/ \E h \in Handlers : SummaryAggregate(h)
    \/ \E h \in Handlers : SummaryTopCategories(h)
    \/ \E h \in Handlers : SummaryRespond(h)
    \/ \E h \in Handlers : SummaryReturn(h)
    \/ SummaryCacheExpire
    \/ \E t \in LiveRows : LedgerAdd(t)

SpecUnknown == InitLive /\ [][NextUnknown]_vars

-----------------------------------------------------------------------------
(* Properties of the ingestion gateway *)

\* a step of the gateway request
GatewayStep == ing' # ing

StoredIds == {t.transaction_id : t \in transactions}

\* C1: there is at most one Transaction row per transaction_id, and no step
\* of an ingestion changes or removes a stored transaction: a payload that
\* carries a stored transaction_id, or the same id twice, leaves the stored
\* row as it is, with its batch, category and ingestion_status.
C1_IngestIdempotent ==
    [][ /\ \A t, u \in transactions' : t.transaction_id = u.transaction_id => t = u
        /\ GatewayStep => \A t \in transactions : t \in transactions' ]_vars

\* C1 witness: a committed request carried the id of a transaction that an
\* earlier batch owns and that has been enriched since
C1_Witness ==
    \E b \in BatchIds : \E t \in transactions :
        /\ request[b] # NoPayload
        /\ \E i \in 1..Len(request[b].transactions) :
               request[b].transactions[i].transaction_id = t.transaction_id
        /\ t.batch # b
        /\ t.ingestion_status = COMPLETED
        /\ t.category # NoneText

\* C2: for every account_id there is exactly one Account row once an
\* ingestion containing it has committed, none before, and the row's name,
\* type, subtype and mask are those of the last committed ingestion containing it.
C2_AccountUpsert ==
    \A a \in AccountIds :
        LET rows == {r \in accounts : r.account_id = a}
            last == lastIngested[a]
        IN  IF last.account_id = NULL THEN rows = {}
            ELSE /\ Cardinality(rows) = 1
                 /\ \A r \in rows :
                        /\ r.name = last.name
                        /\ r.type = last.type
                        /\ r.subtype = Get(last, "subtype", NULL)
                        /\ r.mask = Get(last, "mask", NULL)

\* C2 witness: acc_1 was ingested as Chase Checking and re-ingested renamed
C2_Witness ==
    /\ request[1] = Payloads[1]
    /\ request[2] = Payloads[2]
    /\ \E r \in accounts : r.account_id = "acc_1" /\ r.name = "Chase Premier"

\* a payload, account or transaction lacks a field the contract requires
MissingRequiredField(p) ==
    \/ \E f \in {"accounts", "transactions", "total_transactions"} : f \notin DOMAIN p
    \/ \E i \in 1..Len(p.accounts) :
           \E f \in {"account_id", "name", "type"} : f \notin DOMAIN p.accounts[i]
    \/ \E i \in 1..Len(p.transactions) :
           \E f \in {"transaction_id", "account_id", "amount", "iso_currency_code",
                     "date", "name"} : f \notin DOMAIN p.transactions[i]

\* C3: a request whose payload misses a required field is answered 400 by the
\* gateway's next step, which changes no Account, Batch or Transaction row
\* and schedules no trigger.
C3_RejectBeforeWrite ==
    [][ (ing.pc = "received" /\ MissingRequiredField(ing.payload) /\ GatewayStep)
        => /\ ing'.pc = "done"
           /\ ing'.response.code = 400
           /\ UNCHANGED <<accounts, batches, transactions, queue, delayLog>> ]_vars

\* C3 witness: a request was answered 400 while earlier data is stored
C3_Witness ==
    ing.pc = "done" /\ ing.response.code = 400 /\ transactions # {}

\* every visible batch comes with what its request wrote
BatchIsWhole(r) ==
    LET p == request[r.batch_id]
    IN  /\ p # NoPayload
        /\ \A i \in 1..Len(p.accounts) :
               \E a \in accounts : a.account_id = p.accounts[i].account_id
        /\ \A i \in 1..Len(p.transactions) :
               p.transactions[i].transaction_id \in StoredIds

\* C4: when create fails at any of its three statements the committed tables
\* are what they were before the request, and in every state each visible
\* batch has its request's accounts and transactions visible with it.
C4_AllOrNothing ==
    [][ /\ (ing.pc = "received" /\ ing'.pc = "done" /\ ing'.response.code = 500)
           => UNCHANGED <<accounts, batches, transactions>>
        /\ \A r \in batches' : BatchIsWhole(r)' ]_vars

\* C4 witness: a request failed inside create after an earlier one had
\* committed and been scheduled
C4_Witness ==
    /\ ing.pc = "done"
    /\ ing.response.code = 500
    /\ batches # {}
    /\ \A r \in batches : \E i \in 1..Len(delayLog) : delayLog[i] = r.batch_id

\* C5: the commit of an accepted request adds exactly one Batch, PENDING and
\* with the declared total_transactions, and every transaction it adds
\* belongs to that batch with ingestion_status PENDING; the 202 response
\* carries that batch's id and total and comes with exactly one delay call
\* for that id, the only one ever made for it.
C5_AcceptedRequest ==
    [][ /\ (ing.pc = "received" /\ ing'.pc = "delay")
           => \E r \in batches' :
                  /\ batches' \ batches = {r}
                  /\ \A x \in batches : x.batch_id # r.batch_id /\ x \in batches'
                  /\ r.status = PENDING
                  /\ r.total_transactions = ing.payload.total_transactions
                  /\ ing'.batch = r
                  /\ \A t \in transactions' \ transactions :
                         t.batch = r.batch_id /\ t.ingestion_status = PENDING
        /\ (GatewayStep /\ ing'.response.code = 202)
           => /\ ing.pc = "delay"
              /\ ing'.response.batch_id = ing.batch.batch_id
              /\ ing'.response.total_transactions
                     = request[ing.batch.batch_id].total_transactions
              /\ delayLog' = Append(delayLog, ing.batch.batch_id)
              /\ queue' = Append(queue, ing.batch.batch_id)
              /\ \A i \in 1..Len(delayLog) : delayLog[i] # ing.batch.batch_id ]_vars

\* C5 witness: a request declaring 5 transactions while carrying 2 was
\* accepted and inserted a transaction
C5_Witness ==
    /\ ing.pc = "done"
    /\ ing.response.code = 202
    /\ ing.response.total_transactions = 5
    /\ \E t \in transactions : t.batch = ing.response.batch_id

-----------------------------------------------------------------------------
(* Properties of the batch processor *)

\* C6: a run of process_single_batch that finds its batch PROCESSING or
\* COMPLETED returns in that step: it changes no batch, no transaction and
\* not the pattern cache, and it never reaches the enrichment loop.
C6_GuardNoOp ==
    [][ \A w \in Workers :
          (/\ proc[w].pc = "call"
           /\ proc'[w] # proc[w]
           /\ StatusOf(proc[w].cur) \in {PROCESSING, COMPLETED})
          => /\ UNCHANGED <<batches, transactions, cache>>
             /\ proc'[w].pc \notin {"run", "except"}
             /\ proc'[w].rows = {} ]_vars

\* C6 witness: a sweep has counted the only batch as processed while the
\* batch is PROCESSING and its transactions are still PENDING and without a category
C6_Witness ==
    \E w \in Sweepers :
        /\ proc[w].pc = "return"
        /\ proc[w].processed = 1
        /\ proc[w].failed = 0
        /\ nextBatchId = 2
        /\ StatusOf(1) = PROCESSING
        /\ BatchTransactions(1) # {}
        /\ \A t \in BatchTransactions(1) :
               t.ingestion_status = PENDING /\ t.category = NoneText

\* a caller leaves the except clause it entered when process_single_batch raised
LeavesExcept(w) == proc[w].pc = "except" /\ proc'[w].pc # "except"

\* C7 (as claimed): when a caller has handled a raise of process_single_batch,
\* the batch's committed status is FAILED and the transactions the run had
\* selected are stored as they were.
C7_FailedAfterRaise ==
    [][ \A w \in Workers :
          LeavesExcept(w)
          => /\ StatusIn(batches', proc[w].cur) = FAILED
             /\ \A t \in proc[w].rows : t \in transactions' ]_vars

C9_StatusForward ==
    [][ \A r \in batches :
          /\ r.status \in {COMPLETED, FAILED} => StatusIn(batches', r.batch_id) = r.status
          /\ r.status # PENDING => StatusIn(batches', r.batch_id) # PENDING ]_vars

\* a step of a process_pending_batches task
SweepStep == \E w \in Sweepers : proc'[w] # proc[w]

\* C10 (as claimed): no step of a sweep changes the status or a transaction
\* of a batch whose committed status is FAILED.
C10_SweepSkipsFailed ==
    [][ SweepStep
        => \A r \in batches :
               r.status = FAILED
               => /\ StatusIn(batches', r.batch_id) = FAILED
                  /\ \A t \in BatchTransactions(r.batch_id) : t \in transactions' ]_vars

\* the batches a sweep still has to leave behind: the one in hand and the
\* rest of its list
Remaining(p) ==
    IF p.pc \in {"call", "run", "except"} THEN <<p.cur>> \o p.list ELSE p.list

\* C11: a sweep loads exactly the batches that are PENDING at that moment,
\* oldest first and none twice, with both counts at 0; from then on it leaves
\* the batches behind one at a time in that order, each with one more count;
\* it leaves a batch whose run raised with one more failed count and the batch
\* stored as FAILED, and goes on with the rest; it returns only with its list
\* exhausted, so that processed + failed is the number loaded; and a sweep
\* that loads nothing returns 0 and 0 and changes nothing.
C11_SweepPass ==
    [][ \A w \in Sweepers :
          LET p == proc[w]
              q == proc'[w]
          IN  /\ (p.pc = "idle" /\ q # p)
                 => /\ {Remaining(q)[i] : i \in 1..Len(Remaining(q))}
                           = {r.batch_id : r \in {x \in batches : x.status = PENDING}}
                    /\ \A i, j \in 1..Len(Remaining(q)) :
                           i < j => Remaining(q)[i] < Remaining(q)[j]
                    /\ q.processed = 0 /\ q.failed = 0
                    /\ Remaining(q) = << >>
                           => /\ q.pc = "return"
                              /\ UNCHANGED <<accounts, batches, transactions, queue, cache>>
              /\ (p.pc \in {"call", "run", "except"} /\ q # p)
                 => \/ /\ Remaining(q) = Remaining(p)
                       /\ q.processed = p.processed /\ q.failed = p.failed
                       /\ p.pc # "except"
                    \/ /\ Remaining(q) = Tail(Remaining(p))
                       /\ q.processed + q.failed = p.processed + p.failed + 1
                       /\ p.pc = "except"
                              => /\ q.failed = p.failed + 1
                                 /\ StatusIn(batches', p.cur) = FAILED
              /\ q.pc = "return" => q.list = << >> ]_vars

\* C11 witness: a sweep returns 1 processed and 1 failed: the run of the older
\* batch raised, the batch is FAILED, and the younger batch was completed
C11_Witness ==
    \E w \in Sweepers :
        /\ proc[w].pc = "return"
        /\ proc[w].processed = 1
        /\ proc[w].failed = 1
        /\ nextBatchId = 3
        /\ StatusOf(1) = FAILED
        /\ StatusOf(2) = COMPLETED

\* the number of process_batch_async messages for batch b that a worker has
\* taken from the broker: those sent less those still queued
Attempts(b) ==
    Cardinality({i \in 1..Len(delayLog) : delayLog[i] = b})
        - Cardinality({i \in 1..Len(queue) : queue[i] = b})

\* C12 (as claimed): when the on-demand task has handled a raise of
\* process_single_batch for a batch attempted fewer than 3 times, a message
\* for that batch is back with the broker, and no batch is attempted more
\* than 3 times.
C12_TriggerRetried ==
    [][ /\ \A w \in Triggers :
              (LeavesExcept(w) /\ Attempts(proc[w].cur) < 3)
              => \E i \in 1..Len(queue') : queue'[i] = proc[w].cur
        /\ \A b \in BatchIds : Attempts(b)' <= 3 ]_vars

\* the stored row of transaction t shows the result of an enrichment
VisibleEnriched(table, t) ==
    \E u \in table :
        /\ u.transaction_id = t.transaction_id
        /\ u.ingestion_status = COMPLETED
        /\ u.category # NoneText

\* C13: while a run is inside process_single_batch, the transactions it has
\* selected are all stored as it found them, and the step that ends the run
\* either leaves all of them so or stores all of them with a category and
\* ingestion_status COMPLETED.
C13_NoPartialEnrichment ==
    [][ \A w \in Workers :
          proc[w].pc = "run"
          => /\ \A t \in proc[w].rows : t \in transactions
             /\ \/ \A t \in proc[w].rows : t \in transactions'
                \/ \A t \in proc[w].rows :
                       t \notin transactions' /\ VisibleEnriched(transactions', t) ]_vars

\* C13 witness: a run has committed the enrichment of a batch of two
\* transactions
C13_Witness ==
    \E b \in BatchIds :
        /\ completions[b] = 1
        /\ Cardinality(BatchTransactions(b)) = 2
        /\ \A t \in BatchTransactions(b) : VisibleEnriched(transactions, t)

-----------------------------------------------------------------------------
(* Properties of the categorization and enrichment services *)

\* the text is missing, empty or shorter than 3 characters once lowercased
\* and trimmed
TooShort(text) ==
    \/ text = NoneText
    \/ text = << >>
    \/ Len(strip(lower(text))) < 3

\* C14: every finished call of categorize with a text that is missing, empty
\* or shorter than 3 characters after lowercasing and trimming has returned
\* "other", for every reference data and every cache entry.
C14_ShortTextIsOther ==
    \A k \in Callers :
        (call[k].pc = "done" /\ call[k].invoked /\ TooShort(call[k].transaction_text))
        => call[k].result = Str_other

\* C14 witness: categorize returned "other" for " ub " while the cache holds
\* a snapshot with a pattern that contains "ub"
C14_Witness ==
    /\ call["c1"].pc = "done"
    /\ call["c1"].op = "categorize"
    /\ call["c1"].transaction_text = Str_ub_padded
    /\ call["c1"].result = Str_other
    /\ cache = BuildPatterns(PatternStore, << >>)

\* category c has a pattern of at least 3 characters, lowercased and trimmed,
\* that contains the normalized text n or is contained in it
HasMatchingPattern(c, n) ==
    \E i \in 1..Len(c.patterns) :
        LET q == strip(lower(c.patterns[i]))
        IN  Len(q) >= 3 /\ (contains(q, n) \/ contains(n, q))

\* the name, as the snapshot spells it, of the first category in stored order
\* with a matching pattern, "other" when there is none
RECURSIVE FirstMatchingCategory(_, _)
FirstMatchingCategory(categories, n) ==
    IF categories = << >> THEN Str_other
    ELSE IF HasMatchingPattern(Head(categories), n) THEN lower(Head(categories).name)
         ELSE FirstMatchingCategory(Tail(categories), n)

\* C15 (as claimed): every finished call of categorize with a text of at
\* least 3 characters after normalization, served by a snapshot of the
\* reference data, has returned the name of the first category in stored
\* order that has a matching pattern of at least 3 characters, and "other"
\* when no category has one.
C15_FirstCategoryWins ==
    \A k \in Callers :
        (/\ call[k].pc = "done"
         /\ call[k].invoked
         /\ ~TooShort(call[k].transaction_text)
         /\ call[k].snapshot = BuildPatterns(refData, << >>))
        => call[k].result
               = FirstMatchingCategory(refData, strip(lower(call[k].transaction_text)))

\* the snapshot is the one of the reference data with at least n edits saved
ReflectsEdits(snapshot, n) ==
    \E v \in n..Len(AdminEdits) : snapshot = BuildPatterns(StoreAfter(v), << >>)

\* C16 (as claimed): the snapshot used by a finished categorize call reflects
\* every edit of the reference data that was saved and followed by its
\* cache.delete before the call started.
C16_InvalidationVisible ==
    \A k \in Callers :
        (call[k].pc = "done" /\ call[k].snapshot # NoCache)
        => ReflectsEdits(call[k].snapshot, call[k].must)

\* the value is present and has a character that is not white space
NonBlank(text) == text # NoneText /\ strip(text) # << >>

\* categorize(text) on the snapshot that served the call, in the words of
\* C14 and C15
CategorizeOn(snapshot, text) ==
    IF TooShort(text) THEN Str_other
    ELSE FirstMatch(strip(lower(text)), snapshot)

\* C17 (as claimed): a finished call of enrich_transaction has returned
\* categorize(merchant_name) when merchant_name is non-blank,
\* categorize(description) when merchant_name is missing, empty or blank and
\* description is non-blank, and "other" without a call of the categorizer
\* when neither is non-blank.
C17_EnrichChoosesText ==
    \A k \in Callers :
        (call[k].pc = "done" /\ call[k].op = "enrich")
        => LET m == call[k].merchant_name
               d == call[k].description
           IN  IF NonBlank(m)
               THEN /\ call[k].invoked
                    /\ call[k].transaction_text = m
                    /\ call[k].result = CategorizeOn(call[k].snapshot, m)
               ELSE IF NonBlank(d)
               THEN /\ call[k].invoked
                    /\ call[k].transaction_text = d
                    /\ call[k].result = CategorizeOn(call[k].snapshot, d)
               ELSE /\ ~call[k].invoked
                    /\ call[k].result = Str_other

-----------------------------------------------------------------------------
(* Properties of the account summary *)

\* the January request of the worked example
JanuaryRequest == [account_id |-> "acc_1", start_date |-> 1, end_date |-> 31]

\* the transactions matched by a request: those of the account dated from
\* the first instant of start_date to the last instant of end_date
MatchedBy(r) ==
    {t \in transactions : /\ t.account_id = r.account_id
                          /\ r.start_date * TicksPerDay <= t.date
                          /\ t.date < (r.end_date + 1) * TicksPerDay}

\* the sum of the amounts of a set of rows, taken one row at a time in any
\* order
RECURSIVE AmountTotal(_)
AmountTotal(rows) ==
    IF rows = {} THEN 0
    ELSE LET t == CHOOSE x \in rows : TRUE
         IN  AmountTotal(rows \ {t}) + t.amount

\* a request has been answered with a summary
SummaryAnswered == summary["v1"].pc = "done" /\ summary["v1"].response.code = 200

\* C18: in every summary, total_spend is the magnitude of the sum of the
\* matched amounts strictly below zero, total_income is the sum of the matched
\* amounts at or above zero, and net is total_income minus total_spend; for
\* the worked example of 9 January transactions: income 2500.00, spend 280.00,
\* net 2220.00.
C18_Metrics ==
    SummaryAnswered
    => LET rows == MatchedBy(summary["v1"].request)
           below == AmountTotal({t \in rows : t.amount < 0})
           m == summary["v1"].response.metrics
       IN  /\ m.total_spend = (IF below < 0 THEN 0 - below ELSE below)
           /\ m.total_income = AmountTotal({t \in rows : t.amount >= 0})
           /\ m.net = m.total_income - m.total_spend
           /\ (transactions = TestLedger /\ summary["v1"].request = JanuaryRequest)
              => /\ m.total_transactions = 9
                 /\ m.total_income = 250000
                 /\ m.total_spend = 28000
                 /\ m.net = 222000

\* the worked example has been answered from the stored rows
C18_Witness ==
    /\ SummaryAnswered
    /\ ~summary["v1"].cached
    /\ transactions = TestLedger
    /\ summary["v1"].request = JanuaryRequest
    /\ summary["v1"].response.metrics.total_spend = 28000
    /\ summary["v1"].response.metrics.total_income = 250000
    /\ summary["v1"].response.metrics.net = 222000

\* the matched rows with an amount below zero
SpentIn(rows) == {t \in rows : t.amount < 0}

\* the label under which the rows of category c are reported
LabelOf(c) == IF c = NoneText THEN Str_Uncategorized ELSE c

\* entry e of top_categories reports category c of the rows
ReportsCategory(e, c, rows) ==
    LET of_c == {t \in SpentIn(rows) : t.category = c}
    IN  /\ of_c # {}
        /\ e.category = LabelOf(c)
        /\ e.total_spend = 0 - AmountTotal(of_c)
        /\ e.transaction_count = Cardinality(of_c)

\* C19: a summary counts exactly the transactions of the requested account
\* dated from start_date 00:00:00 to the end of end_date, both ends included:
\* total_transactions is their number, and the metrics, every top category
\* and every status count are those of these transactions alone, whatever
\* other rows are stored.
C19_CountsMatchedOnly ==
    SummaryAnswered
    => LET r == summary["v1"].request
           rows == MatchedBy(r)
           resp == summary["v1"].response
       IN  /\ resp.metrics.total_transactions = Cardinality(rows)
           /\ resp.metrics.total_income - resp.metrics.total_spend = AmountTotal(rows)
           /\ resp.metrics.net = AmountTotal(rows)
           /\ \A i \in DOMAIN resp.top_categories :
                 \E t \in SpentIn(rows) :
                     ReportsCategory(resp.top_categories[i], t.category, rows)
           /\ \A st \in {PENDING, PROCESSING, COMPLETED, FAILED} :
                 LET n == Cardinality({t \in rows : t.ingestion_status = st})
                 IN  CASE st = PENDING -> resp.processing_status.pending = n
                       [] st = PROCESSING -> resp.processing_status.processing = n
                       [] st = COMPLETED -> resp.processing_status.completed = n
                       [] st = FAILED -> resp.processing_status.failed = n
           /\ \A t \in rows :
                 /\ t.account_id = r.account_id
                 /\ At(r.start_date, 0) <= t.date
                 /\ t.date <= At(r.end_date, TicksPerDay - 1)

\* January of acc_1 has been summarised over a ledger holding rows at the
\* first and at the last instant of the window, rows just outside of it and a
\* row of another account
C19_Witness ==
    /\ SummaryAnswered
    /\ ~summary["v1"].cached
    /\ transactions = EdgeRows
    /\ summary["v1"].request = JanuaryRequest
    /\ summary["v1"].response.metrics.total_transactions = 7
    /\ summary["v1"].response.metrics.total_income = 1500
    /\ summary["v1"].response.metrics.total_spend = 4600
    /\ summary["v1"].response.processing_status.failed = 0

\* the categories of the matched rows with an amount below zero
SpentCategories(rows) == {t.category : t \in SpentIn(rows)}

\* the positive total spend of category c in the rows
SpendOf(c, rows) == 0 - AmountTotal({t \in SpentIn(rows) : t.category = c})

\* the smaller of two numbers
Least(a, b) == IF a < b THEN a ELSE b

\* C20: top_categories holds at most 3 entries, one per category among the
\* matched transactions with negative amount, in order of decreasing total
\* spend, and no category left out has a larger total spend than one that is
\* listed; each entry reports the positive sum of its category's negative
\* amounts and the count of those transactions, and the transactions without
\* a category are reported under "Uncategorized".  In the example of the
\* tests the order is shopping 150.00, food 60.00, transport 45.00.
C20_TopCategories ==
    SummaryAnswered
    => LET rows == MatchedBy(summary["v1"].request)
           cats == SpentCategories(rows)
           top == summary["v1"].response.top_categories
       IN  /\ Len(top) <= 3
           /\ Len(top) = Least(3, Cardinality(cats))
           /\ \E listed \in [DOMAIN top -> cats] :
                 /\ \A i, j \in DOMAIN top : i # j => listed[i] # listed[j]
                 /\ \A i \in DOMAIN top : ReportsCategory(top[i], listed[i], rows)
                 /\ \A i \in DOMAIN top : \A c \in cats :
                       (\A j \in DOMAIN top : listed[j] # c)
                       => SpendOf(c, rows) <= top[i].total_spend
           /\ \A i, j \in DOMAIN top : i < j => top[i].total_spend >= top[j].total_spend
           /\ \A i \in DOMAIN top : top[i].total_spend > 0
           /\ (transactions = TestLedger /\ summary["v1"].request = JanuaryRequest)
              => /\ Len(top) = 3
                 /\ top[1].category = Str_shopping /\ top[1].total_spend = 15000
                 /\ top[2].category = Str_food /\ top[2].total_spend = 6000
                 /\ top[3].category = Str_transport /\ top[3].total_spend = 4500

\* four categories were spent in, two of them with the same total: the list
\* is cut after three entries and its last entry is "Uncategorized"
C20_Witness ==
    /\ SummaryAnswered
    /\ ~summary["v1"].cached
    /\ summary["v1"].request = JanuaryRequest
    /\ Cardinality(SpentCategories(MatchedBy(JanuaryRequest))) = 4
    /\ NoneText \in SpentCategories(MatchedBy(JanuaryRequest))
    /\ Len(summary["v1"].response.top_categories) = 3
    /\ summary["v1"].response.top_categories[1].category = Str_shopping
    /\ summary["v1"].response.top_categories[3].category = Str_Uncategorized
    /\ summary["v1"].response.top_categories[3].total_spend = 300
    /\ summary["v1"].response.top_categories[3].transaction_count = 1

\* C21: processing_status of every summary has exactly the four keys pending,
\* processing, completed and failed, and each value is the number of matched
\* transactions with that ingestion_status, 0 when there is none.
C21_StatusCounts ==
    SummaryAnswered
    => LET rows == MatchedBy(summary["v1"].request)
           ps == summary["v1"].response.processing_status
           With(st) == Cardinality({t \in rows : t.ingestion_status = st})
       IN  /\ DOMAIN ps = {"pending", "processing", "completed", "failed"}
           /\ ps["pending"] = With("P")
           /\ ps["processing"] = With("I")
           /\ ps["completed"] = With("C")
           /\ ps["failed"] = With("F")

\* a summary of rows of which some are pending, one is being processed,
\* some are completed and none has failed
C21_Witness ==
    /\ SummaryAnswered
    /\ ~summary["v1"].cached
    /\ transactions = EdgeRows
    /\ summary["v1"].request = JanuaryRequest
    /\ summary["v1"].response.processing_status["pending"] = 2
    /\ summary["v1"].response.processing_status["processing"] = 1
    /\ summary["v1"].response.processing_status["completed"] = 4
    /\ summary["v1"].response.processing_status["failed"] = 0

\* handler h takes up request r in this step
TakesUp(h, r) ==
    /\ summary[h].pc = "idle"
    /\ summary'[h].pc # "idle"
    /\ summary'[h].request = r

\* C22 (as claimed): a summary request made while the cache entry of its key
\* exists returns the result of the request that created the entry, whatever
\* was written to the transactions since; a request made when the key has no
\* entry is answered from the rows stored at the time of its queries.
C22_CacheWindow ==
    [][\A h \in Handlers : \A r \in Requests :
          /\ (TakesUp(h, r) /\ served[r] # NoSummary)
             => summary'[h].response = served[r]
          /\ (TakesUp(h, r) /\ summaryCache[r] = NoSummary /\ summary'[h].pc = "done")
             => summary'[h].response.code = 404
          /\ (summary[h].pc = "aggregate" /\ summary'[h].pc = "top_categories"
                /\ summary[h].request = r)
             => summary'[h].metrics.total_transactions = Cardinality(MatchedBy(r))
      ]_vars

\* a date parameter written as YYYY-MM-DD: four digits, two digits and two
\* digits that name a day of the calendar
WellFormed(s) ==
    /\ s # NoneText
    /\ Len(s) = 10
    /\ s[5] = "-" /\ s[8] = "-"
    /\ \A i \in {1, 2, 3, 4, 6, 7, 9, 10} : s[i] \in DigitChars
    /\ LET y == NumberOf(SubSeq(s, 1, 4))
           mo == NumberOf(SubSeq(s, 6, 7))
           d == NumberOf(SubSeq(s, 9, 10))
       IN  y >= 1 /\ mo \in 1..12 /\ d \in 1..DaysInMonth(y, mo)

\* the day number named by a well-formed date
DayOf(s) ==
    DayNumber(NumberOf(SubSeq(s, 1, 4)), NumberOf(SubSeq(s, 6, 7)),
              NumberOf(SubSeq(s, 9, 10)))

\* the request taken up by worker v1 was rejected with bad request
RejectedAsBad == summary["v1"].pc = "done" /\ summary["v1"].response.code = 400

\* C23 (as claimed): a summary request whose dates are both written as
\* YYYY-MM-DD is accepted exactly when end_date is not before start_date and
\* at most 365 days after it, so 365 days are accepted and 366 rejected with
\* bad request; a request with a missing or malformed date is rejected with
\* bad request.
C23_DateValidation ==
    summary["v1"].query # NoSummary
    => LET ss == summary["v1"].query.start_date_str
           es == summary["v1"].query.end_date_str
       IN  IF WellFormed(ss) /\ WellFormed(es)
           THEN RejectedAsBad <=> ~(DayOf(es) >= DayOf(ss) /\ DayOf(es) - DayOf(ss) <= 365)
           ELSE RejectedAsBad

\* worker v1 has answered a request whose dates are valid
ValidAnswered ==
    /\ summary["v1"].pc = "done"
    /\ summary["v1"].request # NoSummary
    /\ summary["v1"].request.end_date >= summary["v1"].request.start_date
    /\ summary["v1"].request.end_date - summary["v1"].request.start_date <= 365

\* C24 (as claimed): a valid summary request is answered with not found when
\* no transaction is stored for the account, and with success when at least
\* one is stored, also when none of them lies in the requested window.
C24_AccountLookup ==
    ValidAnswered
    => IF \E t \in transactions : t.account_id = summary["v1"].request.account_id
       THEN summary["v1"].response.code = 200
       ELSE summary["v1"].response.code = 404

\* request r has valid dates and names an account with stored transactions
Answerable(r) ==
    /\ r.end_date >= r.start_date
    /\ r.end_date - r.start_date <= 365
    /\ \E t \in transactions : t.account_id = r.account_id

\* C25 (as claimed): a valid summary request that meets an unavailable cache
\* store, at its cache.get or at its cache.set, is still answered with
\* success from the stored transactions.
C25_CacheOutageTolerated ==
    [][\A r \in Requests :
          /\ (TakesUp("v1", r) /\ ~cacheUp /\ Answerable(r))
             => /\ summary'["v1"].pc = "aggregate"
                /\ ~summary'["v1"].cached
          /\ (summary["v1"].pc = "status_breakdown" /\ summary["v1"].request = r
                /\ summary'["v1"].pc = "done" /\ ~cacheUp)
             => summary'["v1"].response.code = 200
      ]_vars

-----------------------------------------------------------------------------
(* Properties of the batch processor: visibility, crashes, redelivery *)

\* C26 (as claimed): while a run is enriching the transactions of a batch,
\* its bulk write not yet being visible, the status of the batch read by any
\* other session is PROCESSING.
C26_ProcessingVisible ==
    \A w \in Workers :
        proc[w].pc = "run" => StatusOf(proc[w].cur) = PROCESSING

\* worker w starts to process batch b in this step
StartsRun(w, b) ==
    /\ proc[w].pc = "call"
    /\ proc'[w].pc = "run"
    /\ proc'[w].cur = b

\* C27 (as claimed): when a worker dies in the middle of processing a batch,
\* PROCESSING having been set and COMPLETED not yet, the persisted status of
\* the batch is PROCESSING, it stays PROCESSING, and no later sweep or
\* trigger processes the batch.
C27_CrashLeavesProcessing ==
    [][/\ \A w \in Workers :
            (proc[w].pc = "run" /\ proc'[w].pc = "crashed")
            => StatusIn(batches', proc[w].cur) = PROCESSING
       /\ \A b \in crashedRuns :
            /\ StatusIn(batches', b) = PROCESSING
            /\ \A w \in Workers : ~StartsRun(w, b)
      ]_vars

\* the batches that have been committed
StoredBatches == {r.batch_id : r \in batches}

\* batch b and its transactions in the state that one delivery of the trigger
\* leaves behind, read from the tables bt and tt
ProcessedOnce(bt, tt, b) ==
    /\ StatusIn(bt, b) = COMPLETED
    /\ \A t \in {x \in tt : x.batch = b} :
          /\ t.ingestion_status = COMPLETED
          /\ t.category = enrich_transaction(t.merchant_name, t.description,
                                             NoCache, PatternStore)

\* a call of process_single_batch for batch b by worker w ends in this step
CallEnds(w, b) ==
    /\ proc[w].pc \in {"call", "run"}
    /\ proc[w].cur = b
    /\ ~(proc'[w].pc \in {"call", "run"} /\ proc'[w].cur = b)

\* C28: when enrichment does not fail, every delivery of the trigger for a
\* batch, the first as well as a repeated one, in any interleaving with
\* sweeps and other deliveries, ends with the batch and its transactions in
\* the state one delivery leaves behind, and from then on the batch and
\* its transactions are not written again.
C28_RedeliveryIdempotent ==
    [][\A b \in StoredBatches :
          /\ \A w \in Triggers :
                CallEnds(w, b) => ProcessedOnce(batches', transactions', b)
          /\ ProcessedOnce(batches, transactions, b)
             => /\ ProcessedOnce(batches', transactions', b)
                /\ {x \in transactions' : x.batch = b} = BatchTransactions(b)
                /\ \A t \in BatchTransactions(b) :
                      writeCount'[t.transaction_id] = writeCount[t.transaction_id]
      ]_vars

\* batch 1 has been processed once and two further deliveries of its trigger
\* are in the hands of the two trigger workers
C28_Witness ==
    /\ 1 \in StoredBatches
    /\ ProcessedOnce(batches, transactions, 1)
    /\ BatchTransactions(1) # {}
    /\ completions[1] = 1
    /\ \A t \in BatchTransactions(1) : writeCount[t.transaction_id] = 1
    /\ \A w \in Triggers : proc[w].pc = "call" /\ proc[w].cur = 1

\* C29: no step takes a batch from COMPLETED to FAILED while its
\* transactions are COMPLETED; in particular the save of FAILED in the
\* sweep's except clause does not replace a COMPLETED status that a
\* concurrent run has committed.
C29_FailedKeepsCompleted ==
    [][\A b \in StoredBatches :
          (/\ StatusOf(b) = COMPLETED
           /\ \A t \in BatchTransactions(b) : t.ingestion_status = COMPLETED)
          => StatusIn(batches', b) # FAILED
      ]_vars

\* C30: in every reachable state a batch whose committed status is COMPLETED
\* has no transaction attached to it whose ingestion_status is PENDING.
C30_CompletedHasNoPending ==
    \A b \in StoredBatches :
        StatusOf(b) = COMPLETED
        => \A t \in BatchTransactions(b) : t.ingestion_status # PENDING

\* a batch is COMPLETED with its transactions attached while another stored
\* batch, not COMPLETED, has a transaction that still waits
C30_Witness ==
    \E b \in StoredBatches :
        /\ StatusOf(b) = COMPLETED
        /\ BatchTransactions(b) # {}
        /\ \E o \in StoredBatches \ {b} :
              /\ StatusOf(o) # COMPLETED
              /\ \E t \in BatchTransactions(o) : t.ingestion_status = PENDING

-----------------------------------------------------------------------------
(* Properties of the batch processor: transactions, liveness, frame *)

\* the stored row is the row t after its one enrichment
EnrichedFrom(t, n) ==
    n = [t EXCEPT !.category = enrich_transaction(t.merchant_name, t.description,
                                                  NoCache, PatternStore),
                  !.ingestion_status = COMPLETED]

\* C31: the only change the pipeline makes to a stored transaction is the step
\* from PENDING to COMPLETED, which writes the category in the same commit; a
\* COMPLETED transaction is not written again by any sweep or trigger, and no
\* transaction is ever PROCESSING or FAILED.
C31_TransactionLifecycle ==
    [][\A t \in transactions :
          /\ t \notin transactions'
             => /\ t.ingestion_status = PENDING
                /\ \E n \in transactions' :
                      /\ n.transaction_id = t.transaction_id
                      /\ EnrichedFrom(t, n)
          /\ t.ingestion_status = COMPLETED
             => /\ t \in transactions'
                /\ writeCount'[t.transaction_id] = writeCount[t.transaction_id]
          /\ \A n \in transactions' : n.ingestion_status \in {PENDING, COMPLETED}
      ]_vars

\* a run is under way for a batch that a sweep's handler has marked FAILED
\* after another run had completed it: its transactions are COMPLETED and
\* have been written once
C31_Witness ==
    \E w \in Workers :
        /\ proc[w].pc = "run"
        /\ StatusOf(proc[w].cur) = FAILED
        /\ BatchTransactions(proc[w].cur) # {}
        /\ \A t \in BatchTransactions(proc[w].cur) :
              /\ t.ingestion_status = COMPLETED
              /\ writeCount[t.transaction_id] = 1

\* the batches for which process_batch_async.delay has succeeded
Scheduled == {delayLog[i] : i \in DOMAIN delayLog}

\* C32: when sweeps keep running and every run terminates, every batch that
\* ingestion has committed eventually leaves PENDING: it is stored as
\* COMPLETED or FAILED at some later time, also when its trigger message is
\* lost, expires, fails or was never scheduled.
C32_LeavesPending ==
    \A b \in BatchIds :
        (b \in StoredBatches /\ StatusOf(b) = PENDING)
            ~> (b \in StoredBatches /\ StatusOf(b) \in {COMPLETED, FAILED})

\* a batch whose trigger could not be scheduled has left PENDING
C32_Witness ==
    \E b \in StoredBatches :
        /\ b \notin Scheduled
        /\ ing.pc # "delay"
        /\ StatusOf(b) \in {COMPLETED, FAILED}
        /\ BatchTransactions(b) # {}

\* the batches for which a trigger message is queued or in the hands of a
\* trigger worker
Triggered ==
    {queue[i] : i \in DOMAIN queue}
        \cup {proc[w].cur : w \in {v \in Triggers : proc[v].pc \in {"call", "run"}}}

\* the scheduling of the trigger fails in this step
SchedulingFails == ing.pc = "delay" /\ ing'.pc = "done" /\ ing'.response.code # 202

ProcessingStep(w, b) ==
    /\ proc[w].pc \in {"call", "run", "except"}
    /\ proc[w].cur = b
    /\ proc'[w] # proc[w]

\* the transaction ids of the payload that created batch b
SentWith(b) ==
    {request[b].transactions[i].transaction_id : i \in 1..Len(request[b].transactions)}

\* C34: a step of the processing of batch B changes at most B's status and
\* transactions owned by B: every account, every other batch and every
\* transaction of another batch is left as it is, also a transaction whose
\* id was sent again in B's payload and skipped as a duplicate; no row is
\* added or removed.
C34_ProcessingFrame ==
    [][\A w \in Workers : \A b \in BatchIds :
          ProcessingStep(w, b)
          => /\ accounts' = accounts
             /\ \A r \in batches : r.batch_id # b => r \in batches'
             /\ {r.batch_id : r \in batches'} = {r.batch_id : r \in batches}
             /\ \A r \in batches : \A q \in batches' :
                    r.batch_id = q.batch_id
                    => q.total_transactions = r.total_transactions
             /\ \A t \in transactions : t.batch # b => t \in transactions'
             /\ {t.transaction_id : t \in transactions'} = StoredIds
      ]_vars

\* batch 2 has been processed while a transaction that its payload sent again
\* still waits, untouched, with batch 1
C34_Witness ==
    /\ 2 \in StoredBatches
    /\ StatusOf(2) = COMPLETED
    /\ completions[2] = 1
    /\ BatchTransactions(2) # {}
    /\ \E t \in transactions :
          /\ t.batch = 1
          /\ t.transaction_id \in SentWith(2)
          /\ t.ingestion_status = PENDING
          /\ t.category = NoneText

-----------------------------------------------------------------------------
(* Properties of the sweep's counts *)

\* C35: in the step in which a sweep counts a batch as processed, the return
\* of its call of process_single_batch whether the call ran the enrichment or
\* returned at the guard, the batch is stored as COMPLETED; and in the step in
\* which it counts a batch as failed, the end of its except clause, the batch
\* is stored as FAILED.
C35_CountsMatchStatus ==
    [][\A w \in Sweepers :
          /\ proc'[w].processed = proc[w].processed + 1
             => StatusIn(batches', proc[w].cur) = COMPLETED
          /\ proc'[w].failed = proc[w].failed + 1
             => StatusIn(batches', proc[w].cur) = FAILED
      ]_vars

\* two sweeps have both counted the only batch as processed: one of them
\* completed it, the call of the other returned at the guard
C35_Witness ==
    /\ nextBatchId = 2
    /\ StatusOf(1) = COMPLETED
    /\ completions[1] = 1
    /\ \A w \in Sweepers : proc[w].processed = 1 /\ proc[w].failed = 0

-----------------------------------------------------------------------------
(* Properties of the account summary: consistency of a result, failures *)

\* the sum of total_spend over the entries of a top_categories list
RECURSIVE TopSpend(_)
TopSpend(list) ==
    IF list = << >> THEN 0 ELSE Head(list).total_spend + TopSpend(Tail(list))

\* C36 (as claimed): in every summary returned with success the counts of
\* pending, processing, completed and failed add up to
\* metrics.total_transactions, and the total_spend values of the entries of
\* top_categories add up to at most metrics.total_spend.
C36_ResultConsistent ==
    \A h \in Handlers :
        (summary[h].pc = "done" /\ summary[h].response.code = 200)
        => LET res == summary[h].response
               ps == res.processing_status
           IN  /\ ps["pending"] + ps["processing"] + ps["completed"] + ps["failed"]
                     = res.metrics.total_transactions
               /\ TopSpend(res.top_categories) <= res.metrics.total_spend

\* the dates of request r pass the validation: the end is not before the
\* start and at most 365 days after it
DatesPass(r) == r.start_date <= r.end_date /\ r.end_date - r.start_date <= 365

\* a transaction is stored for the account of request r
Known(r) == \E t \in transactions : t.account_id = r.account_id

-----------------------------------------------------------------------------
(* Properties of the pattern snapshot *)

\* what categorize returns for a text when the snapshot is rebuilt from the
\* store
Rebuilt(text) ==
    IF text = NoneText \/ Len(strip(lower(text))) < MIN_LENGTH THEN Str_other
    ELSE FirstMatch(strip(lower(text)), BuildPatterns(refData, << >>))

\* C38: while nothing is written to Category or CategoryPattern, every call of
\* categorize returns for its text what a rebuild of the snapshot from the
\* store gives, whether the call was served from the cache or rebuilt the
\* snapshot after a miss or an expiry; so two calls with the same text return
\* the same result.
C38_CacheTransparent ==
    [][ /\ \A k \in Callers :
              (call[k].pc # "done" /\ call'[k].pc = "done")
              => call'[k].result = Rebuilt(call'[k].transaction_text)
        /\ \A k \in Callers :
              (call[k].pc = "get" /\ call'[k].pc = "done")
              => /\ cache # NoCache
                 /\ call'[k].snapshot = BuildPatterns(refData, << >>)
      ]_vars

\* one caller has been answered from the cache entry that the other has set
\* after rebuilding the snapshot: both asked for "Uber", which two categories
\* of the store match, and both got the same category
C38_Witness ==
    /\ refData = AmbiguousStore
    /\ cache = BuildPatterns(refData, << >>)
    /\ \A k \in Callers :
          /\ call[k].pc = "done"
          /\ call[k].transaction_text = Str_Uber
          /\ call[k].result = Str_food
          /\ call[k].snapshot = cache

====
